---- MODULE Spec2Model ----
(***************************************************************************)
(* Job ledger (job_manager.py: JobManager over the sqlite tables jobs and  *)
(* cost_tracking) and cost reconciliation (cost_tracker.py:                *)
(* CloudCostTracker) of the cloud scheduler.                               *)
(*                                                                         *)
(* Time is counted in hours since midnight of the day OriginDay of a month *)
(* of MonthDays days; a timestamp column holds the clock value of the call *)
(* that wrote it, or NULL.                                                 *)
(***************************************************************************)
EXTENDS Integers, Sequences, FiniteSets, TLC

VARIABLES
    now,            \* the wall clock, datetime.now(), in hours
    jobs,           \* table jobs: the committed rows, in rowid order
    cost_tracking,  \* table cost_tracking: the committed rows, in rowid order
    ret,            \* what the last operation returned and which collaborators it called
    nops,           \* number of ledger/tracker operations issued so far
    lock,           \* the process holding sqlite's write lock, or NoProc
    procs,          \* the concurrent client processes: position, locals and the
                    \* tables as the process's open transaction sees them
    hist            \* history: the jobs that reached running, the jobs reconciled by
                    \* retrieve_job_cost, the last calculate_job_cost result of each job

vars == <<now, jobs, cost_tracking, ret, nops, lock, procs, hist>>

-----------------------------------------------------------------------------
(* Bounds of the model *)

MaxDays == 2
MaxOps == 4
MaxReconOps == 3
MaxBatchOps == 4
MaxBatchJobs == 2
MaxDaysBack == 1
MaxAmount == 1
MaxBreakdown == 1
MaxCleanupOps == 4
MaxFrameOps == 3
MaxBudgetOps == 3
MaxBudget == 2
MaxCost == 3
MaxDaysOld == 2
MaxCostOps == 3
MaxRunCostOps == 5
MaxPrice == 1
MaxReadOps == 3
MaxWindowOps == 5
MaxDryRunOps == 3
MaxTerminateOps == 3
MaxHookOps == 3

(* Program constants *)

DayTicks == 24
BatchListFactor == 2
BufferHours == 1
DryRunListLimit == 1000
MaxAttempts == 5
InitialSleepHours == 1

NULL == -1

\* the calendar: the clock starts at midnight of the 30th of a month of 31 days
OriginDay == 30
MonthDays == 31

JobIds == {"j1", "j2"}
AllJobIds == JobIds \cup {"j3"}

TerminalStatuses == {"completed", "failed", "terminated"}
\* the statuses the callers write: the launcher (launching, launched, failed), the
\* instance (running), the completion hook and the terminator (the terminal ones)
Statuses == {"launching", "launched", "running"} \cup TerminalStatuses
\* launch_result['status'] as create_job receives it
CreateStatuses == {"launching", "running", "completed"}
\* job['provider'].upper(); ORACLE stands for every provider without a collaborator
Providers == {"AWS", "GCP", "AZURE", "ORACLE"}
SupportedProviders == {"AWS", "GCP", "AZURE"}

NoProc == "none"
Procs == {"p1", "p2"}

Min(a, b) == IF a <= b THEN a ELSE b
Max(a, b) == IF a >= b THEN a ELSE b

-----------------------------------------------------------------------------
(* Table helpers *)

\* the rows of a table that satisfy WHERE job_id = j
RowsOf(rows, j) == {i \in DOMAIN rows : rows[i].job_id = j}

HasJob(rows, j) == RowsOf(rows, j) # {}

\* cursor.fetchone() of SELECT * FROM jobs WHERE job_id = j (first row in rowid order)
FirstRow(rows, j) == rows[CHOOSE i \in RowsOf(rows, j) : \A k \in RowsOf(rows, j) : i <= k]

IsTerminal(st) == st \in TerminalStatuses

-----------------------------------------------------------------------------
(* JobManager: the statements of each transaction, as functions of the table *)

\* a jobs table declared without the primary key: every INSERT goes through
PrimaryKeyFree_Undeclared(rows, j) == TRUE

\* jobs.job_id is the PRIMARY KEY: an INSERT of a present id raises IntegrityError
PrimaryKeyFree(rows, j) == ~HasJob(rows, j)

\* the row create_job inserts: status and provider come from launch_result,
\* instance_id and the addresses default to '', created_at = updated_at = now,
\* price_per_hour is job_config's (0.0 when it has none), budget_limit is
\* job_config's or NULL, the other timestamps and the costs (estimated_cost is
\* not among the inserted columns) are NULL, metadata is the JSON text of
\* {launch_result, job_config}
NewJobRow(j, st, prov, budget, price, t) ==
    [job_id |-> j, status |-> st, provider |-> prov,
     instance_id |-> "", public_ip |-> "", private_ip |-> "",
     created_at |-> t, updated_at |-> t, started_at |-> NULL, completed_at |-> NULL,
     price_per_hour |-> price, budget_limit |-> budget, estimated_cost |-> NULL,
     actual_cost |-> NULL, cost_retrieved_at |-> NULL, metadata |-> "str"]

\* UPDATE jobs SET status = ?, updated_at = ? WHERE job_id = ?
StmtSetStatus(rows, j, st, t) ==
    [i \in DOMAIN rows |->
        IF rows[i].job_id = j
        THEN [rows[i] EXCEPT !.status = st, !.updated_at = t]
        ELSE rows[i]]

\* the status-specific timestamp: started_at for running, completed_at for a
\* terminal status, nothing for any other status
StmtStampStatus(rows, j, st, t) ==
    IF st = "running"
    THEN [i \in DOMAIN rows |->
            IF rows[i].job_id = j THEN [rows[i] EXCEPT !.started_at = t] ELSE rows[i]]
    ELSE IF IsTerminal(st)
         THEN [i \in DOMAIN rows |->
                 IF rows[i].job_id = j THEN [rows[i] EXCEPT !.completed_at = t] ELSE rows[i]]
         ELSE rows

\* the status and timestamp statements of update_job_status
UpdateJobStatusTx(rows, j, st, t) == StmtStampStatus(StmtSetStatus(rows, j, st, t), j, st, t)

\* the keys of additional_data that update_job_status writes
ExtraAllowList == {"public_ip", "private_ip", "instance_id"}

\* additional_data is a dict: a function from its keys to their values
NoExtra == [k \in {} |-> ""]

\* the loop over additional_data written without its test of the key: every key
\* that names a column is written
StmtSetExtra_AnyColumn(rows, j, additional_data) ==
    [i \in DOMAIN rows |->
        IF rows[i].job_id = j
        THEN [f \in DOMAIN rows[i] |->
                IF f \in DOMAIN additional_data THEN additional_data[f] ELSE rows[i][f]]
        ELSE rows[i]]

\* for key, value in additional_data.items(): UPDATE jobs SET {key} = ? WHERE
\* job_id = ?, for the keys of the allow-list only
StmtSetExtra(rows, j, additional_data) ==
    [i \in DOMAIN rows |->
        IF rows[i].job_id = j
        THEN [f \in DOMAIN rows[i] |->
                IF f \in DOMAIN additional_data \cap ExtraAllowList
                THEN additional_data[f]
                ELSE rows[i][f]]
        ELSE rows[i]]

\* the whole transaction of update_job_status(job_id, status, additional_data)
UpdateJobStatusAll(rows, j, st, additional_data, t) ==
    StmtSetExtra(UpdateJobStatusTx(rows, j, st, t), j, additional_data)

\* the UPDATE of update_actual_cost written without updated_at = ?
StmtSetCost_NoBump(rows, j, c, t) ==
    [i \in DOMAIN rows |->
        IF rows[i].job_id = j
        THEN [rows[i] EXCEPT !.actual_cost = c, !.cost_retrieved_at = t]
        ELSE rows[i]]

\* UPDATE jobs SET actual_cost = ?, cost_retrieved_at = ?, updated_at = ? WHERE job_id = ?
StmtSetCost(rows, j, c, t) ==
    [i \in DOMAIN rows |->
        IF rows[i].job_id = j
        THEN [rows[i] EXCEPT !.actual_cost = c, !.cost_retrieved_at = t, !.updated_at = t]
        ELSE rows[i]]

\* the INSERTs preceded by a DELETE of the job's earlier entries
StmtInsertBreakdown_Replace(ct, j, breakdown, t) ==
    SelectSeq(ct, LAMBDA c : c.job_id # j)
        \o [i \in 1..Len(breakdown) |->
               [job_id |-> j, amount |-> breakdown[i], retrieved_at |-> t]]

\* one INSERT INTO cost_tracking per item of a non-empty breakdown; the foreign
\* key is declared but sqlite does not enforce it on this connection
StmtInsertBreakdown(ct, j, breakdown, t) ==
    ct \o [i \in 1..Len(breakdown) |->
             [job_id |-> j, amount |-> breakdown[i], retrieved_at |-> t]]

\* get_job: the first row with this id, its metadata parsed from JSON text to a dict
GetJob(rows, j) ==
    LET row == FirstRow(rows, j)
    IN  IF row.metadata = "str" THEN [row EXCEPT !.metadata = "dict"] ELSE row

-----------------------------------------------------------------------------
(* Billing collaborators *)

NoCost == [total |-> NULL, breakdown |-> <<>>]

Amounts == 0..MaxAmount

\* a non-null result: a total and its line items
CostResults ==
    {[total |-> a, breakdown |-> [i \in 1..n |-> IF i = 1 THEN a ELSE 0]] :
        a \in Amounts, n \in 0..MaxBreakdown}

CostOutcomes == CostResults \cup {NoCost}

\* json.loads accepts JSON text; handed a dict it raises TypeError
JsonLoadsOk(v) == v = "str"

-----------------------------------------------------------------------------
(* CloudCostTracker.retrieve_job_cost as a function of the ledger: the ledger *)
(* it leaves, its return value and the collaborators it called                *)

RetrieveOutcome(rows, ct, ok, calls) == [jobs |-> rows, cost |-> ct, ok |-> ok, calls |-> calls]

\* the window without the buffer for billing delays
QueryWindow_Unpadded(job, t) ==
    [start |-> IF job.started_at # NULL THEN job.started_at ELSE job.created_at,
     end |-> IF job.completed_at # NULL THEN job.completed_at ELSE t]

\* start_date and end_date as the collaborator receives them: from started_at
\* or created_at to completed_at or now, an hour added on each side
QueryWindow(job, t) ==
    [start |-> (IF job.started_at # NULL THEN job.started_at ELSE job.created_at) - BufferHours,
     end |-> (IF job.completed_at # NULL THEN job.completed_at ELSE t) + BufferHours]

\* no collaborator was called
NoWindow == [start |-> NULL, end |-> NULL]

\* the tail written without the test of cost_data: a null result is stored too
StoreCostData_ClearOnNull(rows, ct, j, cd, calls, t) ==
    RetrieveOutcome(StmtSetCost(rows, j, cd.total, t),
                    StmtInsertBreakdown(ct, j, cd.breakdown, t), cd # NoCost, calls)

\* the tail written to record the time of a retrieval that found no data
StoreCostData_StampOnNull(rows, ct, j, cd, calls, t) ==
    IF cd # NoCost
    THEN RetrieveOutcome(StmtSetCost(rows, j, cd.total, t),
                         StmtInsertBreakdown(ct, j, cd.breakdown, t), TRUE, calls)
    ELSE RetrieveOutcome([i \in DOMAIN rows |->
                             IF rows[i].job_id = j
                             THEN [rows[i] EXCEPT !.cost_retrieved_at = t, !.updated_at = t]
                             ELSE rows[i]],
                         ct, FALSE, calls)

\* the tail of retrieve_job_cost once cost_data is known
StoreCostData(rows, ct, j, cd, calls, t) ==
    IF cd # NoCost
    THEN RetrieveOutcome(StmtSetCost(rows, j, cd.total, t),
                         StmtInsertBreakdown(ct, j, cd.breakdown, t), TRUE, calls)
    ELSE RetrieveOutcome(rows, ct, FALSE, calls)

\* the dispatch on job['provider'].upper()
DispatchProvider(rows, ct, j, job, cd, t) ==
    IF job.provider = "AWS"
    THEN StoreCostData(rows, ct, j, cd, <<"AWS">>, t)
    ELSE IF job.provider \in {"GCP", "AZURE"}
         THEN IF JsonLoadsOk(job.metadata)
              THEN StoreCostData(rows, ct, j, cd, <<job.provider>>, t)
              ELSE RetrieveOutcome(rows, ct, FALSE, <<>>)
         ELSE RetrieveOutcome(rows, ct, FALSE, <<>>)

\* retrieve_job_cost without its test of the job's status
RetrieveJobCostFn_NoStatusTest(rows, ct, j, force, cd, t) ==
    IF ~HasJob(rows, j)
    THEN RetrieveOutcome(rows, ct, FALSE, <<>>)
    ELSE LET job == GetJob(rows, j)
         IN  IF job.actual_cost # NULL /\ ~force
             THEN RetrieveOutcome(rows, ct, TRUE, <<>>)
             ELSE DispatchProvider(rows, ct, j, job, cd, t)

\* retrieve_job_cost without its test of an actual cost already retrieved
RetrieveJobCostFn_NoShortCircuit(rows, ct, j, force, cd, t) ==
    IF ~HasJob(rows, j)
    THEN RetrieveOutcome(rows, ct, FALSE, <<>>)
    ELSE LET job == GetJob(rows, j)
         IN  IF ~IsTerminal(job.status)
             THEN RetrieveOutcome(rows, ct, FALSE, <<>>)
             ELSE DispatchProvider(rows, ct, j, job, cd, t)

RetrieveJobCostFn(rows, ct, j, force, cd, t) ==
    IF ~HasJob(rows, j)
    THEN RetrieveOutcome(rows, ct, FALSE, <<>>)
    ELSE LET job == GetJob(rows, j)
         IN  IF job.actual_cost # NULL /\ ~force
             THEN RetrieveOutcome(rows, ct, TRUE, <<>>)
             ELSE IF ~IsTerminal(job.status)
                  THEN RetrieveOutcome(rows, ct, FALSE, <<>>)
                  ELSE DispatchProvider(rows, ct, j, job, cd, t)

-----------------------------------------------------------------------------
(* JobManager.list_jobs and CloudCostTracker.batch_retrieve_costs *)

\* position, among the positions left, of the row ORDER BY created_at DESC puts
\* first; of two rows stamped in the same hour the later insert is the later one
FirstDesc(rows, left) ==
    CHOOSE i \in left :
        \A k \in left :
            \/ rows[i].created_at > rows[k].created_at
            \/ rows[i].created_at = rows[k].created_at /\ i >= k

RECURSIVE OrderByCreatedDesc(_, _)
OrderByCreatedDesc(rows, left) ==
    IF left = {}
    THEN <<>>
    ELSE LET i == FirstDesc(rows, left)
         IN  <<rows[i]>> \o OrderByCreatedDesc(rows, left \ {i})

\* SELECT * FROM jobs ORDER BY created_at DESC LIMIT limit, rows as get_job gives them
ListJobs(rows, limit) ==
    LET sorted == OrderByCreatedDesc(rows, DOMAIN rows)
    IN  SubSeq(sorted, 1, Min(limit, Len(sorted)))

\* the test of the filter loop of batch_retrieve_costs
BatchEligible(job, cutoff) ==
    /\ IsTerminal(job.status)
    /\ job.actual_cost = NULL
    /\ job.created_at >= cutoff

\* the jobs batch_retrieve_costs goes on to process
BatchSelect(rows, max_jobs, days_back, t) ==
    LET listed == ListJobs(rows, max_jobs * BatchListFactor)
        eligible == SelectSeq(listed, LAMBDA job : BatchEligible(job, t - days_back * DayTicks))
    IN  SubSeq(eligible, 1, Min(max_jobs, Len(eligible)))

\* the processing loop written to give up at the first job whose retrieval fails
RECURSIVE BatchLoop_StopAtFailure(_, _, _, _, _, _)
BatchLoop_StopAtFailure(selected, k, rows, ct, billing, t) ==
    IF k > Len(selected)
    THEN [jobs |-> rows, cost |-> ct, results |-> <<>>, calls |-> <<>>]
    ELSE LET j == selected[k].job_id
             out == RetrieveJobCostFn(rows, ct, j, FALSE, billing[j], t)
             rest == IF out.ok
                     THEN BatchLoop_StopAtFailure(selected, k + 1, out.jobs, out.cost, billing, t)
                     ELSE [jobs |-> out.jobs, cost |-> out.cost, results |-> <<>>, calls |-> <<>>]
         IN  [jobs |-> rest.jobs, cost |-> rest.cost,
              results |-> <<[job_id |-> j, ok |-> out.ok]>> \o rest.results,
              calls |-> out.calls \o rest.calls]

\* the processing loop from its k-th job on: the ledger it leaves and, per job,
\* what retrieve_job_cost returned; billing[j] is the collaborator's answer for j
RECURSIVE BatchLoop(_, _, _, _, _, _)
BatchLoop(selected, k, rows, ct, billing, t) ==
    IF k > Len(selected)
    THEN [jobs |-> rows, cost |-> ct, results |-> <<>>, calls |-> <<>>]
    ELSE LET j == selected[k].job_id
             out == RetrieveJobCostFn(rows, ct, j, FALSE, billing[j], t)
             rest == BatchLoop(selected, k + 1, out.jobs, out.cost, billing, t)
         IN  [jobs |-> rest.jobs, cost |-> rest.cost,
              results |-> <<[job_id |-> j, ok |-> out.ok]>> \o rest.results,
              calls |-> out.calls \o rest.calls]

-----------------------------------------------------------------------------
(* JobManager.cleanup_completed_jobs *)

\* datetime.now().day
DayOfMonth(t) == ((OriginDay - 1 + t \div DayTicks) % MonthDays) + 1

\* .replace(hour=0, minute=0, second=0, microsecond=0)
Midnight(t) == (t \div DayTicks) * DayTicks

\* .replace(day=cutoff_date.day - days_old) raises ValueError unless the new day
\* is a day of the month
ReplaceDayOk(t, days_old) == DayOfMonth(t) - days_old \in 1..MonthDays

\* the cutoff when replace succeeds: midnight of the same month's earlier day
CleanupCutoff(t, days_old) == Midnight(t) - days_old * DayTicks

\* a DELETE without the test of the status
CleanupDeletes_AnyStatus(job, cutoff) == job.created_at < cutoff

\* WHERE status IN ('completed', 'failed', 'terminated') AND created_at < ?
CleanupDeletes(job, cutoff) == IsTerminal(job.status) /\ job.created_at < cutoff

\* connections are opened without PRAGMA foreign_keys = ON: sqlite leaves the
\* FOREIGN KEY ... ON DELETE CASCADE of cost_tracking unenforced
ForeignKeysEnforced == FALSE

\* cost_tracking after the rows of jobs with these ids were deleted
CascadeDelete(ct, deleted_ids) ==
    IF ForeignKeysEnforced
    THEN SelectSeq(ct, LAMBDA c : c.job_id \notin deleted_ids)
    ELSE ct

\* cleanup_completed_jobs as a function of the ledger: the tables it leaves and
\* the count it returns (0 from the except branch)
CleanupCompletedJobsFn(rows, ct, days_old, t) ==
    IF ReplaceDayOk(t, days_old)
    THEN LET cutoff == CleanupCutoff(t, days_old)
             kept == SelectSeq(rows, LAMBDA job : ~CleanupDeletes(job, cutoff))
             gone == {rows[i].job_id : i \in {k \in DOMAIN rows : CleanupDeletes(rows[k], cutoff)}}
         IN  [jobs |-> kept, cost |-> CascadeDelete(ct, gone),
              count |-> Len(rows) - Len(kept), raised |-> FALSE]
    ELSE [jobs |-> rows, cost |-> ct, count |-> 0, raised |-> TRUE]

-----------------------------------------------------------------------------
(* JobManager.check_budget_limit *)

\* job_config['budget_limit'] as create_job stores it: absent, or an amount
Budgets == {NULL} \cup 0..MaxBudget

\* a test for 0.0 alone in the place of not v
Falsy_ZeroOnly(v) == v = 0

\* not v, for the value of a REAL column: None and 0.0 are falsy
Falsy(v) == v = NULL \/ v = 0

\* the dict check_budget_limit returns, a function from its keys; the percentage
\* (estimated_cost / budget_limit) * 100 is whole for the amounts of the model
CheckBudgetLimitFn(rows, j, estimated_cost) ==
    IF ~HasJob(rows, j) \/ Falsy(GetJob(rows, j).budget_limit)
    THEN [within_budget |-> TRUE, budget_limit |-> NULL, estimated_cost |-> estimated_cost]
    ELSE LET budget_limit == GetJob(rows, j).budget_limit
         IN  [within_budget |-> estimated_cost <= budget_limit,
              budget_limit |-> budget_limit,
              estimated_cost |-> estimated_cost,
              budget_usage_percent |-> IF budget_limit > 0
                                       THEN (estimated_cost * 100) \div budget_limit
                                       ELSE 0,
              over_budget_amount |-> Max(0, estimated_cost - budget_limit)]

-----------------------------------------------------------------------------
(* JobManager.calculate_job_cost, get_cost_summary, get_jobs_over_budget *)

\* job_config['price_per_hour'] as create_job stores it: None, or a rate per hour
Prices == {NULL} \cup 0..MaxPrice

\* job.get('started_at') or job['created_at']
CostStart(job) == IF job.started_at # NULL THEN job.started_at ELSE job.created_at

\* job.get('completed_at') or datetime.now().isoformat()
CostEnd(job, t) == IF job.completed_at # NULL THEN job.completed_at ELSE t

\* calculate_job_cost with the clock in the place of completed_at
CalculateJobCostFn_AlwaysNow(rows, j, t) ==
    IF ~HasJob(rows, j) \/ Falsy(GetJob(rows, j).price_per_hour)
    THEN 0
    ELSE (t - CostStart(GetJob(rows, j))) * GetJob(rows, j).price_per_hour

\* calculate_job_cost with the difference taken as start - end
CalculateJobCostFn_Reversed(rows, j, t) ==
    IF ~HasJob(rows, j) \/ Falsy(GetJob(rows, j).price_per_hour)
    THEN 0
    ELSE (CostStart(GetJob(rows, j)) - CostEnd(GetJob(rows, j), t))
            * GetJob(rows, j).price_per_hour

\* calculate_job_cost: always a float, 0.0 for a missing job or a falsy price;
\* hours = (end - start).total_seconds() / 3600, the clock of the model is in hours
CalculateJobCostFn(rows, j, t) ==
    IF ~HasJob(rows, j) \/ Falsy(GetJob(rows, j).price_per_hour)
    THEN 0
    ELSE LET job == GetJob(rows, j)
             hours == CostEnd(job, t) - CostStart(job)
         IN  hours * job.price_per_hour

\* the value None of a dict-or-None result
None == [none |-> TRUE]

\* dict.update: the keys of the second dict win
DictUpdate(d, u) ==
    [k \in DOMAIN d \cup DOMAIN u |-> IF k \in DOMAIN u THEN u[k] ELSE d[k]]

\* a or b for a REAL column value a
OrElse(a, b) == IF Falsy(a) THEN b ELSE a

\* get_cost_summary: None for a missing job, else the summary dict, updated
\* with the budget check of (actual_cost or current_runtime_cost) when
\* budget_limit is truthy; cost_breakdown holds the job's cost_tracking rows
GetCostSummaryFn(rows, ct, j, t) ==
    IF ~HasJob(rows, j)
    THEN None
    ELSE LET job_dict == FirstRow(rows, j)
             current_runtime_cost == CalculateJobCostFn(rows, j, t)
             summary == [none |-> FALSE,
                         job_id |-> j,
                         provider |-> job_dict.provider,
                         status |-> job_dict.status,
                         estimated_cost |-> job_dict.estimated_cost,
                         actual_cost |-> job_dict.actual_cost,
                         current_runtime_cost |-> current_runtime_cost,
                         budget_limit |-> job_dict.budget_limit,
                         cost_retrieved_at |-> job_dict.cost_retrieved_at,
                         cost_breakdown |-> SelectSeq(ct, LAMBDA c : c.job_id = j),
                         within_budget |-> TRUE]
         IN  IF ~Falsy(job_dict.budget_limit)
             THEN DictUpdate(summary,
                             CheckBudgetLimitFn(rows, j,
                                 OrElse(job_dict.actual_cost, current_runtime_cost)))
             ELSE summary

\* the WHERE clause of get_jobs_over_budget
OverBudgetSelected(job) ==
    /\ job.budget_limit # NULL
    /\ \/ job.actual_cost # NULL /\ job.actual_cost > job.budget_limit
       \/ /\ job.actual_cost = NULL
          /\ job.estimated_cost # NULL
          /\ job.estimated_cost > job.budget_limit

\* the loop body of get_jobs_over_budget raises on this row: None > limit is a
\* TypeError, cost / 0 a ZeroDivisionError
OverBudgetRaises(job) ==
    LET cost_to_check == OrElse(job.actual_cost, job.estimated_cost)
    IN  \/ cost_to_check = NULL
        \/ cost_to_check > job.budget_limit /\ job.budget_limit = 0

\* the row with its two annotations; the percentage is whole for the amounts of
\* the model
OverBudgetAnnotate(job) ==
    LET cost_to_check == OrElse(job.actual_cost, job.estimated_cost)
    IN  [job_id |-> job.job_id, budget_limit |-> job.budget_limit,
         actual_cost |-> job.actual_cost, estimated_cost |-> job.estimated_cost,
         over_budget_amount |-> cost_to_check - job.budget_limit,
         budget_usage_percent |-> (cost_to_check * 100) \div job.budget_limit]

\* get_jobs_over_budget: the selected rows, newest first, annotated; [] from
\* the except branch when the loop raises on any of them
GetJobsOverBudgetFn(rows) ==
    LET picked == {i \in DOMAIN rows : OverBudgetSelected(rows[i])}
        selected == OrderByCreatedDesc(rows, picked)
    IN  IF \E i \in picked : OverBudgetRaises(rows[i])
        THEN <<>>
        ELSE LET over == SelectSeq(selected,
                            LAMBDA job : OrElse(job.actual_cost, job.estimated_cost)
                                            > job.budget_limit)
             IN  [k \in DOMAIN over |-> OverBudgetAnnotate(over[k])]

-----------------------------------------------------------------------------
(* The operations, each one call from a single client *)

Tick ==
    /\ now + DayTicks <= MaxDays * DayTicks
    /\ now' = now + DayTicks
    /\ UNCHANGED <<jobs, cost_tracking, ret, nops, lock, procs, hist>>

CreateJob(j, st, prov, budget, price) ==
    /\ nops' = nops + 1
    /\ IF PrimaryKeyFree(jobs, j)
       THEN /\ jobs' = Append(jobs, NewJobRow(j, st, prov, budget, price, now))
            /\ ret' = [op |-> "create", job_id |-> j, ok |-> TRUE, calls |-> <<>>]
            /\ hist' = IF st = "running"
                       THEN [hist EXCEPT !.ever_running = @ \cup {j}]
                       ELSE hist
       ELSE /\ jobs' = jobs
            /\ ret' = [op |-> "create", job_id |-> j, ok |-> FALSE, calls |-> <<>>]
            /\ hist' = hist
    /\ UNCHANGED <<now, cost_tracking, lock, procs>>

UpdateJobStatus(j, st, additional_data) ==
    /\ nops' = nops + 1
    /\ jobs' = UpdateJobStatusAll(jobs, j, st, additional_data, now)
    /\ ret' = [op |-> "update_status", job_id |-> j, ok |-> TRUE, calls |-> <<>>,
               status |-> st, extra |-> DOMAIN additional_data]
    /\ hist' = IF st = "running" /\ HasJob(jobs, j)
               THEN [hist EXCEPT !.ever_running = @ \cup {j}]
               ELSE hist
    /\ UNCHANGED <<now, cost_tracking, lock, procs>>

UpdateActualCost(j, cd) ==
    /\ nops' = nops + 1
    /\ jobs' = StmtSetCost(jobs, j, cd.total, now)
    /\ cost_tracking' = StmtInsertBreakdown(cost_tracking, j, cd.breakdown, now)
    /\ ret' = [op |-> "update_actual_cost", job_id |-> j, ok |-> TRUE, calls |-> <<>>,
               cost_data |-> cd]
    /\ UNCHANGED <<now, lock, procs, hist>>

RetrieveJobCost(j, force, cd) ==
    /\ nops' = nops + 1
    /\ LET out == RetrieveJobCostFn(jobs, cost_tracking, j, force, cd, now)
       IN  /\ jobs' = out.jobs
           /\ cost_tracking' = out.cost
           /\ ret' = [op |-> "retrieve", job_id |-> j, ok |-> out.ok, calls |-> out.calls,
                      force |-> force,
                      billing |-> IF out.calls = <<>> THEN NoCost ELSE cd,
                      window |-> IF out.calls = <<>>
                                 THEN NoWindow
                                 ELSE QueryWindow(GetJob(jobs, j), now)]
           /\ hist' = IF out.ok /\ ~force /\ out.calls # <<>>
                      THEN [hist EXCEPT !.retrieved = @ \cup {j}]
                      ELSE hist
    /\ UNCHANGED <<now, lock, procs>>

BatchRetrieveCosts(max_jobs, days_back, billing) ==
    /\ nops' = nops + 1
    /\ LET selected == BatchSelect(jobs, max_jobs, days_back, now)
           out == BatchLoop(selected, 1, jobs, cost_tracking, billing, now)
           succeeded == SelectSeq(out.results, LAMBDA r : r.ok)
       IN  /\ jobs' = out.jobs
           /\ cost_tracking' = out.cost
           /\ ret' = [op |-> "batch", job_id |-> "", ok |-> TRUE, calls |-> out.calls,
                      max_jobs |-> max_jobs, days_back |-> days_back,
                      results |-> out.results,
                      processed |-> Len(out.results),
                      successful |-> Len(succeeded),
                      failed |-> Len(out.results) - Len(succeeded)]
           /\ hist' = [hist EXCEPT !.retrieved =
                          @ \cup {out.results[i].job_id : i \in {k \in DOMAIN out.results : out.results[k].ok}}]
    /\ UNCHANGED <<now, lock, procs>>

CleanupCompletedJobs(days_old) ==
    /\ nops' = nops + 1
    /\ LET out == CleanupCompletedJobsFn(jobs, cost_tracking, days_old, now)
       IN  /\ jobs' = out.jobs
           /\ cost_tracking' = out.cost
           /\ ret' = [op |-> "cleanup", job_id |-> "", ok |-> ~out.raised, calls |-> <<>>,
                      days_old |-> days_old, at |-> now, count |-> out.count]
    /\ UNCHANGED <<now, lock, procs, hist>>

CheckBudgetLimit(j, estimated_cost) ==
    /\ nops' = nops + 1
    /\ ret' = [op |-> "check_budget", job_id |-> j, ok |-> TRUE, calls |-> <<>>,
               cost |-> estimated_cost,
               result |-> CheckBudgetLimitFn(jobs, j, estimated_cost)]
    /\ UNCHANGED <<now, jobs, cost_tracking, lock, procs, hist>>

GetJobRead(j) ==
    /\ nops' = nops + 1
    /\ ret' = [op |-> "get", job_id |-> j, ok |-> HasJob(jobs, j), calls |-> <<>>,
               result |-> IF HasJob(jobs, j)
                          THEN [none |-> FALSE, job |-> GetJob(jobs, j)]
                          ELSE None]
    /\ UNCHANGED <<now, jobs, cost_tracking, lock, procs, hist>>

CalculateJobCost(j) ==
    /\ nops' = nops + 1
    /\ LET value == CalculateJobCostFn(jobs, j, now)
           seen == [none |-> FALSE, value |-> value, at |-> now,
                    start |-> CostStart(FirstRow(jobs, j)),
                    price |-> FirstRow(jobs, j).price_per_hour]
       IN  /\ ret' = [op |-> "calculate_cost", job_id |-> j, ok |-> TRUE, calls |-> <<>>,
                      is_none |-> FALSE, value |-> value, at |-> now,
                      prev |-> IF j \in DOMAIN hist.last_cost THEN hist.last_cost[j] ELSE None]
           /\ hist' = IF HasJob(jobs, j)
                      THEN [hist EXCEPT !.last_cost =
                              [k \in DOMAIN @ \cup {j} |-> IF k = j THEN seen ELSE @[k]]]
                      ELSE hist
    /\ UNCHANGED <<now, jobs, cost_tracking, lock, procs>>

GetCostSummary(j) ==
    /\ nops' = nops + 1
    /\ ret' = [op |-> "cost_summary", job_id |-> j, ok |-> HasJob(jobs, j), calls |-> <<>>,
               result |-> GetCostSummaryFn(jobs, cost_tracking, j, now)]
    /\ UNCHANGED <<now, jobs, cost_tracking, lock, procs, hist>>

GetJobsOverBudget ==
    /\ nops' = nops + 1
    /\ ret' = [op |-> "over_budget", job_id |-> "", ok |-> TRUE, calls |-> <<>>,
               result |-> GetJobsOverBudgetFn(jobs)]
    /\ UNCHANGED <<now, jobs, cost_tracking, lock, procs, hist>>

-----------------------------------------------------------------------------

NoRet == [op |-> "none", job_id |-> "", ok |-> FALSE, calls |-> <<>>]

IdleProc ==
    [pc |-> "idle", op |-> "none", job_id |-> "", status |-> "", cost |-> NoCost,
     t |-> NULL, ok |-> FALSE, overlapped |-> FALSE, wjobs |-> <<>>, wcost |-> <<>>]

Init ==
    /\ now = 0
    /\ jobs = <<>>
    /\ cost_tracking = <<>>
    /\ ret = NoRet
    /\ nops = 0
    /\ lock = NoProc
    /\ procs = [p \in Procs |-> IdleProc]
    /\ hist = [ever_running |-> {}, retrieved |-> {}, last_cost |-> NoExtra]

\* the job lifecycle: clients creating jobs and updating their status
Next ==
    \/ Tick
    \/ /\ nops < MaxOps
       /\ \E j \in JobIds, st \in CreateStatuses : CreateJob(j, st, "AWS", NULL, 0)
    \/ /\ nops < MaxOps
       /\ \E j \in JobIds, st \in Statuses : UpdateJobStatus(j, st, NoExtra)

Spec == Init /\ [][Next]_vars

\* reconciliation of one job: its creation, its status updates and retrieve_job_cost
ReconJob == "j1"

NextRecon ==
    \/ Tick
    \/ /\ nops < MaxReconOps
       /\ \E st \in CreateStatuses, prov \in Providers : CreateJob(ReconJob, st, prov, NULL, 0)
    \/ /\ nops < MaxReconOps
       /\ \E st \in {"running", "completed"} : UpdateJobStatus(ReconJob, st, NoExtra)
    \/ /\ nops < MaxReconOps
       /\ \E cd \in CostResults : UpdateActualCost(ReconJob, cd)
    \/ /\ nops < MaxReconOps
       /\ \E force \in BOOLEAN, cd \in CostOutcomes : RetrieveJobCost(ReconJob, force, cd)

SpecRecon == Init /\ [][NextRecon]_vars

\* batch reconciliation over a ledger of up to three AWS jobs
BatchCost == [total |-> 1, breakdown |-> <<1>>]

NextBatch ==
    \/ Tick
    \/ /\ nops < MaxBatchOps
       /\ \E j \in AllJobIds, st \in {"launching", "completed"} : CreateJob(j, st, "AWS", NULL, 0)
    \/ /\ nops < MaxBatchOps
       /\ \E max_jobs \in 1..MaxBatchJobs, days_back \in 0..MaxDaysBack,
             billing \in [AllJobIds -> {NoCost, BatchCost}] :
                BatchRetrieveCosts(max_jobs, days_back, billing)

SpecBatch == Init /\ [][NextBatch]_vars

\* cleanup of a ledger of two AWS jobs, some with cost-breakdown entries
NextCleanup ==
    \/ Tick
    \/ /\ nops < MaxCleanupOps
       /\ \E j \in JobIds, st \in {"running", "completed"} : CreateJob(j, st, "AWS", NULL, 0)
    \/ /\ nops < MaxCleanupOps
       /\ \E j \in JobIds : UpdateActualCost(j, BatchCost)
    \/ /\ nops < MaxCleanupOps
       /\ \E days_old \in 0..MaxDaysOld : CleanupCompletedJobs(days_old)

SpecCleanup == Init /\ [][NextCleanup]_vars

\* the additional_data the callers pass: the launcher's instance data, the
\* terminator's termination_reason and final_cost, and dicts that name columns
\* outside the allow-list
ExtraInputs ==
    { NoExtra,
      [instance_id |-> "i-1", public_ip |-> "ip-1"],
      [termination_reason |-> "user", final_cost |-> 1],
      [private_ip |-> "ip-2", job_id |-> "j2", provider |-> "GCP"],
      [created_at |-> 0, price_per_hour |-> 1, budget_limit |-> 1, actual_cost |-> 0] }

\* status updates carrying additional_data, on a ledger of two jobs
NextFrame ==
    \/ Tick
    \/ /\ nops < MaxFrameOps
       /\ \E j \in JobIds : CreateJob(j, "launching", "AWS", NULL, 0)
    \/ /\ nops < MaxFrameOps
       /\ \E j \in JobIds : UpdateActualCost(j, BatchCost)
    \/ /\ nops < MaxFrameOps
       /\ \E j \in JobIds, st \in {"launched", "terminated"}, additional_data \in ExtraInputs :
             UpdateJobStatus(j, st, additional_data)

SpecFrame == Init /\ [][NextFrame]_vars

\* budget checks on a ledger of two jobs created with or without a budget_limit
NextBudget ==
    \/ Tick
    \/ /\ nops < MaxBudgetOps
       /\ \E j \in JobIds, budget \in Budgets : CreateJob(j, "running", "AWS", budget, 0)
    \/ /\ nops < MaxBudgetOps
       /\ \E j \in JobIds, c \in 0..MaxCost : CheckBudgetLimit(j, c)

SpecBudget == Init /\ [][NextBudget]_vars

\* an amount and no line items
TotalOnly(a) == [total |-> a, breakdown |-> <<>>]

\* the cost reads on a ledger of two jobs with prices, budgets and actual costs
NextCost ==
    \/ Tick
    \/ /\ nops < MaxCostOps
       /\ \E j \in JobIds, budget \in Budgets, price \in Prices :
             CreateJob(j, "launching", "AWS", budget, price)
    \/ /\ nops < MaxCostOps
       /\ \E j \in JobIds, st \in {"running", "completed"} : UpdateJobStatus(j, st, NoExtra)
    \/ /\ nops < MaxCostOps
       /\ \E j \in JobIds, a \in 0..MaxBudget : UpdateActualCost(j, TotalOnly(a))
    \/ /\ nops < MaxCostOps
       /\ \E j \in JobIds : GetJobRead(j)
    \/ /\ nops < MaxCostOps
       /\ \E j \in JobIds : CalculateJobCost(j)
    \/ /\ nops < MaxCostOps
       /\ \E j \in JobIds : GetCostSummary(j)
    \/ /\ nops < MaxCostOps
       /\ GetJobsOverBudget

SpecCost == Init /\ [][NextCost]_vars

\* the running cost of one job through its life
NextRunCost ==
    \/ Tick
    \/ /\ nops < MaxRunCostOps
       /\ \E price \in Prices : CreateJob(ReconJob, "launching", "AWS", NULL, price)
    \/ /\ nops < MaxRunCostOps
       /\ \E st \in {"running", "completed"} : UpdateJobStatus(ReconJob, st, NoExtra)
    \/ /\ nops < MaxRunCostOps
       /\ CalculateJobCost(ReconJob)

SpecRunCost == Init /\ [][NextRunCost]_vars

-----------------------------------------------------------------------------
(* Concurrent clients: each process makes one call on the shared database.   *)
(* A call reads the clock, runs its statements one by one inside the         *)
(* transaction that "with sqlite3.connect(...) as conn" opens at the first   *)
(* UPDATE and commits on leaving the block, and returns.                     *)

\* a write statement needs sqlite's write lock: it is free, or this process holds
\* it; a writer that finds it held waits for it (the connection's busy timeout is
\* far longer than a transaction of two or three statements)
LockFree_Unlocked(holder, p) == TRUE

LockFree(holder, p) == holder \in {NoProc, p}

\* what the other connections read once a statement of an open transaction has
\* run: the committed table, not the transaction's working copy
VisibleAfterStatement_Autocommit(committed, working) == working

VisibleAfterStatement(committed, working) == committed

\* the call reads datetime.now() and connects; overlapped notes that another
\* process was then inside a call
BeginCall(p, op, j, st, cd) ==
    /\ procs[p].pc = "idle"
    /\ procs' = [procs EXCEPT ![p] =
                    [pc |-> "stmt1", op |-> op, job_id |-> j, status |-> st, cost |-> cd,
                     t |-> now, ok |-> FALSE,
                     overlapped |-> \E q \in Procs \ {p} :
                                       procs[q].pc \in {"stmt1", "stmt2", "commit"},
                     wjobs |-> <<>>, wcost |-> <<>>]]
    /\ nops' = nops + 1
    /\ UNCHANGED <<now, jobs, cost_tracking, ret, lock, hist>>

\* whether update_job_status runs a timestamp statement for this status
HasStampStatement(st) == st = "running" \/ IsTerminal(st)

\* the first UPDATE: it takes the write lock and opens the transaction on the
\* committed tables
FirstStatement(p) ==
    LET c == procs[p]
        w == IF c.op = "update_status"
             THEN StmtSetStatus(jobs, c.job_id, c.status, c.t)
             ELSE StmtSetCost(jobs, c.job_id, c.cost.total, c.t)
    IN  /\ c.pc = "stmt1"
        /\ c.op \in {"update_status", "update_actual_cost", "retrieve"}
        /\ LockFree(lock, p)
        /\ lock' = p
        /\ jobs' = VisibleAfterStatement(jobs, w)
        /\ procs' = [procs EXCEPT ![p].wjobs = w,
                                  ![p].wcost = cost_tracking,
                                  ![p].pc = IF c.op = "update_status" /\ ~HasStampStatement(c.status)
                                            THEN "commit" ELSE "stmt2"]
        /\ UNCHANGED <<now, cost_tracking, ret, nops, hist>>

\* the statements after the first: the timestamp of update_job_status, the
\* INSERTs of update_actual_cost
SecondStatement(p) ==
    LET c == procs[p]
        w == IF c.op = "update_status"
             THEN StmtStampStatus(c.wjobs, c.job_id, c.status, c.t)
             ELSE c.wjobs
        wc == IF c.op = "update_status"
              THEN c.wcost
              ELSE StmtInsertBreakdown(c.wcost, c.job_id, c.cost.breakdown, c.t)
    IN  /\ c.pc = "stmt2"
        /\ jobs' = VisibleAfterStatement(jobs, w)
        /\ cost_tracking' = VisibleAfterStatement(cost_tracking, wc)
        /\ procs' = [procs EXCEPT ![p].wjobs = w, ![p].wcost = wc, ![p].pc = "commit"]
        /\ UNCHANGED <<now, ret, nops, lock, hist>>

\* leaving the with block commits the transaction's tables and releases the
\* lock; the call returns True
Commit(p) ==
    LET c == procs[p]
    IN  /\ c.pc = "commit"
        /\ jobs' = c.wjobs
        /\ cost_tracking' = c.wcost
        /\ lock' = NoProc
        /\ procs' = [procs EXCEPT ![p].pc = "done", ![p].ok = TRUE,
                                  ![p].wjobs = <<>>, ![p].wcost = <<>>]
        /\ ret' = [op |-> c.op, job_id |-> c.job_id, ok |-> TRUE, calls |-> <<>>]
        /\ hist' = IF c.op \in {"update_status", "create"} /\ c.status = "running"
                        /\ HasJob(c.wjobs, c.job_id)
                   THEN [hist EXCEPT !.ever_running = @ \cup {c.job_id}]
                   ELSE hist
        /\ UNCHANGED <<now, nops>>

ConcJob == "j1"

\* the ledger after create_job(ConcJob) by the launcher
InitConc ==
    /\ now = 0
    /\ jobs = <<NewJobRow(ConcJob, "launching", "AWS", NULL, 0, 0)>>
    /\ cost_tracking = <<>>
    /\ ret = [op |-> "create", job_id |-> ConcJob, ok |-> TRUE, calls |-> <<>>]
    /\ nops = 1
    /\ lock = NoProc
    /\ procs = [p \in Procs |-> IdleProc]
    /\ hist = [ever_running |-> {}, retrieved |-> {}, last_cost |-> NoExtra]

NextConc ==
    \/ Tick
    \/ \E p \in Procs, st \in {"launched", "running", "completed"} :
          BeginCall(p, "update_status", ConcJob, st, NoCost)
    \/ \E p \in Procs, cd \in CostResults :
          BeginCall(p, "update_actual_cost", ConcJob, "", cd)
    \/ \E p \in Procs : FirstStatement(p)
    \/ \E p \in Procs : SecondStatement(p)
    \/ \E p \in Procs : Commit(p)

SpecConc == InitConc /\ [][NextConc]_vars

-----------------------------------------------------------------------------
(* Store failures: a statement or the commit of a call raises inside the     *)
(* with block; the connection rolls the transaction back on the way out and  *)
(* the except branch of the call returns False.                              *)

\* the exception leaves the with block without a rollback: what the
\* transaction had written stays
Rollback_KeepPartial(committed, working) == working

\* conn.__exit__ with an exception: the transaction's writes are discarded
Rollback(committed, working) == committed

\* the tables the transaction of c has written so far (the committed ones
\* before its first statement)
WorkingJobs(c) == IF c.pc = "stmt1" THEN jobs ELSE c.wjobs

WorkingCost(c) == IF c.pc = "stmt1" THEN cost_tracking ELSE c.wcost

\* the except branch: rollback, the lock released if this call held it, False
\* returned; the process keeps the tables it discarded
ExceptBranch(p) ==
    LET c == procs[p]
    IN  /\ jobs' = Rollback(jobs, WorkingJobs(c))
        /\ cost_tracking' = Rollback(cost_tracking, WorkingCost(c))
        /\ lock' = IF lock = p THEN NoProc ELSE lock
        /\ procs' = [procs EXCEPT ![p].pc = "done", ![p].ok = FALSE,
                                  ![p].wjobs = WorkingJobs(c), ![p].wcost = WorkingCost(c)]
        /\ ret' = [op |-> c.op, job_id |-> c.job_id, ok |-> FALSE, calls |-> <<>>]
        /\ UNCHANGED <<now, nops, hist>>

\* the INSERT of create_job: it takes the write lock and opens the
\* transaction; an id already present raises IntegrityError
CreateStatement(p) ==
    LET c == procs[p]
    IN  /\ c.pc = "stmt1"
        /\ c.op = "create"
        /\ LockFree(lock, p)
        /\ IF PrimaryKeyFree(jobs, c.job_id)
           THEN /\ lock' = p
                /\ procs' = [procs EXCEPT
                                ![p].wjobs = Append(jobs, NewJobRow(c.job_id, c.status, "AWS",
                                                                    NULL, 0, c.t)),
                                ![p].wcost = cost_tracking,
                                ![p].pc = "commit"]
                /\ UNCHANGED <<now, jobs, cost_tracking, ret, nops, hist>>
           ELSE ExceptBranch(p)

\* the store fails (disk, I/O, a value sqlite cannot bind) at the statement
\* the call is about to run or at its commit
StoreFails(p) ==
    /\ procs[p].pc \in {"stmt1", "stmt2", "commit"}
    /\ ExceptBranch(p)

FailJobs == {ConcJob, "j2"}

NextFail ==
    \/ Tick
    \/ \E p \in Procs, j \in FailJobs, st \in {"launching", "running"} :
          BeginCall(p, "create", j, st, NoCost)
    \/ \E p \in Procs, st \in {"launched", "running", "completed"} :
          BeginCall(p, "update_status", ConcJob, st, NoCost)
    \/ \E p \in Procs, cd \in CostResults :
          BeginCall(p, "update_actual_cost", ConcJob, "", cd)
    \/ \E p \in Procs : CreateStatement(p)
    \/ \E p \in Procs : FirstStatement(p)
    \/ \E p \in Procs : SecondStatement(p)
    \/ \E p \in Procs : Commit(p)
    \/ \E p \in Procs : StoreFails(p)

SpecFail == InitConc /\ [][NextFail]_vars

-----------------------------------------------------------------------------
(* Concurrent launchers: two processes call create_job, each once.           *)

NextCreate ==
    \/ Tick
    \/ \E p \in Procs, j \in FailJobs, st \in {"launching", "running"} :
          BeginCall(p, "create", j, st, NoCost)
    \/ \E p \in Procs : CreateStatement(p)
    \/ \E p \in Procs : Commit(p)

SpecCreate == InitConc /\ [][NextCreate]_vars

-----------------------------------------------------------------------------
(* Reads: list_jobs and the reporting views of CostReporter                  *)

\* the dicts a read builds from the rows it fetched written back to the table
RowsAfterFetch_WriteBack(rows, fetched) ==
    [i \in DOMAIN rows |->
        IF \E k \in DOMAIN fetched : fetched[k].job_id = rows[i].job_id
        THEN fetched[CHOOSE k \in DOMAIN fetched : fetched[k].job_id = rows[i].job_id]
        ELSE rows[i]]

\* the table after a read: dict(row) copies each fetched row, so parsing its
\* metadata or annotating it does not reach the table, and the transaction that
\* the with block commits holds no write
RowsAfterFetch(rows, fetched) == rows

\* list_jobs: the selected rows as dicts, their metadata parsed
ListJobsDicts(rows, limit) ==
    LET l == ListJobs(rows, limit)
    IN  [i \in DOMAIN l |-> IF l[i].metadata = "str" THEN [l[i] EXCEPT !.metadata = "dict"] ELSE l[i]]

\* COALESCE(actual_cost, estimated_cost, 0)
CoalesceCost(job) ==
    IF job.actual_cost # NULL THEN job.actual_cost
    ELSE IF job.estimated_cost # NULL THEN job.estimated_cost
    ELSE 0

\* SUM of a column over the selected rows
RECURSIVE SumCost(_)
SumCost(rows) == IF rows = <<>> THEN 0 ELSE CoalesceCost(Head(rows)) + SumCost(Tail(rows))

RECURSIVE SumBudget(_)
SumBudget(rows) == IF rows = <<>> THEN 0 ELSE Head(rows).budget_limit + SumBudget(Tail(rows))

\* generate_cost_trends: the totals over the jobs created in the last days,
\* of one provider if one is given ("" for none)
GenerateCostTrendsFn(rows, days, provider, t) ==
    LET start_date == t - days * DayTicks
        sel == SelectSeq(rows, LAMBDA job :
                   /\ job.created_at >= start_date
                   /\ provider # "" => job.provider = provider)
        confirmed == SelectSeq(sel, LAMBDA job : job.actual_cost # NULL)
        estimated == SelectSeq(sel, LAMBDA job : job.actual_cost = NULL)
    IN  [job_count |-> Len(sel),
         total_cost |-> SumCost(sel),
         confirmed_cost |-> SumCost(confirmed),
         estimated_cost |-> SumCost(estimated)]

\* the test and the annotation of one job of generate_budget_analysis
BudgetOver(job) == job.budget_limit > 0 /\ CoalesceCost(job) > job.budget_limit

\* generate_budget_analysis: the jobs WHERE budget_limit IS NOT NULL and their
\* statistics
GenerateBudgetAnalysisFn(rows) ==
    LET budget_jobs == SelectSeq(rows, LAMBDA job : job.budget_limit # NULL)
        over == SelectSeq(budget_jobs, BudgetOver)
    IN  [total_jobs_with_budget |-> Len(budget_jobs),
         jobs_within_budget |-> Len(budget_jobs) - Len(over),
         jobs_over_budget |-> Len(over),
         total_budget_allocated |-> SumBudget(budget_jobs),
         total_spent |-> SumCost(budget_jobs),
         total_overrun |-> SumCost(over) - SumBudget(over),
         over_budget_jobs |-> [i \in DOMAIN over |-> over[i].job_id]]

\* generate_provider_comparison: GROUP BY provider over the jobs created in
\* the last days
GenerateProviderComparisonFn(rows, days, t) ==
    LET start_date == t - days * DayTicks
        sel == SelectSeq(rows, LAMBDA job : job.created_at >= start_date)
        present == {sel[i].provider : i \in DOMAIN sel}
    IN  [prov \in present |->
            LET mine == SelectSeq(sel, LAMBDA job : job.provider = prov)
            IN  [job_count |-> Len(mine),
                 total_cost |-> SumCost(mine),
                 completed_jobs |-> Len(SelectSeq(mine, LAMBDA job : job.status = "completed")),
                 failed_jobs |-> Len(SelectSeq(mine, LAMBDA job : job.status = "failed"))]]

ListJobsRead(limit) ==
    /\ nops' = nops + 1
    /\ LET fetched == ListJobsDicts(jobs, limit)
       IN  /\ ret' = [op |-> "list", job_id |-> "", ok |-> TRUE, calls |-> <<>>,
                      result |-> fetched]
           /\ jobs' = RowsAfterFetch(jobs, fetched)
    /\ UNCHANGED <<now, cost_tracking, lock, procs, hist>>

GenerateCostTrends(days, provider) ==
    /\ nops' = nops + 1
    /\ ret' = [op |-> "cost_trends", job_id |-> "", ok |-> TRUE, calls |-> <<>>,
               result |-> GenerateCostTrendsFn(jobs, days, provider, now)]
    /\ UNCHANGED <<now, jobs, cost_tracking, lock, procs, hist>>

GenerateBudgetAnalysis ==
    /\ nops' = nops + 1
    /\ ret' = [op |-> "budget_analysis", job_id |-> "", ok |-> TRUE, calls |-> <<>>,
               result |-> GenerateBudgetAnalysisFn(jobs)]
    /\ UNCHANGED <<now, jobs, cost_tracking, lock, procs, hist>>

GenerateProviderComparison(days) ==
    /\ nops' = nops + 1
    /\ ret' = [op |-> "provider_comparison", job_id |-> "", ok |-> TRUE, calls |-> <<>>,
               result |-> GenerateProviderComparisonFn(jobs, days, now)]
    /\ UNCHANGED <<now, jobs, cost_tracking, lock, procs, hist>>

ReadOps ==
    {"get", "list", "calculate_cost", "check_budget", "cost_summary", "over_budget",
     "cost_trends", "budget_analysis", "provider_comparison"}

\* every read, on a ledger that create_job and update_actual_cost have filled
NextReads ==
    \/ Tick
    \/ /\ nops < MaxReadOps
       /\ \E j \in JobIds, prov \in {"AWS", "GCP"}, budget \in {NULL, 1} :
             CreateJob(j, "completed", prov, budget, MaxPrice)
    \/ /\ nops < MaxReadOps
       /\ \E j \in JobIds, cd \in CostResults : UpdateActualCost(j, cd)
    \/ /\ nops < MaxReadOps
       /\ \E j \in JobIds : GetJobRead(j)
    \/ /\ nops < MaxReadOps
       /\ \E limit \in 1..2 : ListJobsRead(limit)
    \/ /\ nops < MaxReadOps
       /\ \E j \in JobIds : CalculateJobCost(j)
    \/ /\ nops < MaxReadOps
       /\ \E j \in JobIds, c \in 0..MaxBudget : CheckBudgetLimit(j, c)
    \/ /\ nops < MaxReadOps
       /\ \E j \in JobIds : GetCostSummary(j)
    \/ /\ nops < MaxReadOps
       /\ GetJobsOverBudget
    \/ /\ nops < MaxReadOps
       /\ \E days \in 0..MaxDaysBack, prov \in {"", "AWS"} : GenerateCostTrends(days, prov)
    \/ /\ nops < MaxReadOps
       /\ GenerateBudgetAnalysis
    \/ /\ nops < MaxReadOps
       /\ \E days \in 0..MaxDaysBack : GenerateProviderComparison(days)

SpecReads == Init /\ [][NextReads]_vars

-----------------------------------------------------------------------------
(* Concurrent cost retrieval: each process makes one call, retrieve_job_cost *)
(* or update_job_status, on a job created in a terminal status.  A retrieval *)
(* reads the job, decides, calls the billing collaborator outside any        *)
(* transaction, and writes through update_actual_cost.                       *)

\* get_job and the tests before the dispatch: the call returns at once, or
\* goes on to the collaborator with what it has read
RetrieveBegin(p, j, force) ==
    LET probe == RetrieveJobCostFn(jobs, cost_tracking, j, force, NoCost, now)
        c == [pc |-> IF probe.calls = <<>> THEN "done" ELSE "billing",
              op |-> "retrieve", job_id |-> j, status |-> "", cost |-> NoCost,
              t |-> now, ok |-> probe.ok,
              overlapped |-> \E q \in Procs \ {p} :
                                procs[q].pc \in {"billing", "stmt1", "stmt2", "commit"},
              wjobs |-> <<>>, wcost |-> <<>>, force |-> force]
    IN  /\ procs[p].pc = "idle"
        /\ procs' = [procs EXCEPT ![p] = c]
        /\ nops' = nops + 1
        /\ ret' = IF probe.calls = <<>>
                  THEN [op |-> "retrieve", job_id |-> j, ok |-> probe.ok, calls |-> <<>>]
                  ELSE ret
        /\ UNCHANGED <<now, jobs, cost_tracking, lock, hist>>

\* the collaborator returns: without data the call returns False, with data
\* it enters update_actual_cost, which reads the clock
BillingReturns(p, cd) ==
    LET c == procs[p]
    IN  /\ c.pc = "billing"
        /\ IF cd = NoCost
           THEN /\ procs' = [procs EXCEPT ![p].pc = "done", ![p].ok = FALSE]
                /\ ret' = [op |-> "retrieve", job_id |-> c.job_id, ok |-> FALSE,
                           calls |-> <<"AWS">>]
           ELSE /\ procs' = [procs EXCEPT ![p].pc = "stmt1", ![p].cost = cd, ![p].t = now]
                /\ ret' = ret
        /\ UNCHANGED <<now, jobs, cost_tracking, nops, lock, hist>>

\* the ledger after create_job(ConcJob) with launch_result status completed
InitRetr ==
    /\ now = 0
    /\ jobs = <<NewJobRow(ConcJob, "completed", "AWS", NULL, 0, 0)>>
    /\ cost_tracking = <<>>
    /\ ret = [op |-> "create", job_id |-> ConcJob, ok |-> TRUE, calls |-> <<>>]
    /\ nops = 1
    /\ lock = NoProc
    /\ procs = [p \in Procs |-> IdleProc]
    /\ hist = [ever_running |-> {}, retrieved |-> {}, last_cost |-> NoExtra]

NextRetr ==
    \/ Tick
    \/ \E p \in Procs, force \in BOOLEAN : RetrieveBegin(p, ConcJob, force)
    \/ \E p \in Procs, cd \in CostOutcomes : BillingReturns(p, cd)
    \/ \E p \in Procs, st \in {"running", "completed"} :
          BeginCall(p, "update_status", ConcJob, st, NoCost)
    \/ \E p \in Procs : FirstStatement(p)
    \/ \E p \in Procs : SecondStatement(p)
    \/ \E p \in Procs : Commit(p)

SpecRetr == InitRetr /\ [][NextRetr]_vars

-----------------------------------------------------------------------------

\* one AWS job through several status changes, and its cost retrievals
NextWindow ==
    \/ Tick
    \/ /\ nops < MaxWindowOps
       /\ \E st \in {"launching", "completed"} : CreateJob(ReconJob, st, "AWS", NULL, 0)
    \/ /\ nops < MaxWindowOps
       /\ \E st \in {"running", "completed"} : UpdateJobStatus(ReconJob, st, NoExtra)
    \/ /\ nops < MaxWindowOps
       /\ \E force \in BOOLEAN, cd \in {NoCost, TotalOnly(1)} :
             RetrieveJobCost(ReconJob, force, cd)

SpecWindow == Init /\ [][NextWindow]_vars

-----------------------------------------------------------------------------
(* cloud_list.cleanup_old_jobs *)

\* the dry run: of the jobs list_jobs(limit=1000) returns, the terminal ones
\* created before now - timedelta(days=days)
CleanupDryRunFn(rows, days, t) ==
    Len(SelectSeq(ListJobs(rows, DryRunListLimit), LAMBDA job :
            IsTerminal(job.status) /\ job.created_at < t - days * DayTicks))

\* cleanup_old_jobs: the dry run counts and changes nothing, the real run is
\* cleanup_completed_jobs
CleanupOldJobs(days, dry_run) ==
    /\ nops' = nops + 1
    /\ LET out == IF dry_run
                  THEN [jobs |-> jobs, cost |-> cost_tracking,
                        count |-> CleanupDryRunFn(jobs, days, now)]
                  ELSE CleanupCompletedJobsFn(jobs, cost_tracking, days, now)
       IN  /\ jobs' = out.jobs
           /\ cost_tracking' = out.cost
           /\ ret' = [op |-> "cleanup_old", job_id |-> "", ok |-> TRUE, calls |-> <<>>,
                      days |-> days, dry_run |-> dry_run, at |-> now, count |-> out.count]
    /\ UNCHANGED <<now, lock, procs, hist>>

NextDryRun ==
    \/ Tick
    \/ /\ nops < MaxDryRunOps
       /\ \E j \in JobIds, st \in {"running", "completed"} : CreateJob(j, st, "AWS", NULL, 0)
    \/ /\ nops < MaxDryRunOps
       /\ \E days \in 0..MaxDaysOld, dry_run \in BOOLEAN : CleanupOldJobs(days, dry_run)

SpecDryRun == Init /\ [][NextDryRun]_vars

-----------------------------------------------------------------------------
(* cloud_terminate.main: the terminate flow on the ledger.  The provider's   *)
(* terminate call is a collaborator: its result status is an input.          *)

TerminateResults == {"success", "already_terminated", "not_found", "error"}

\* what main leaves: the jobs table, the exit code and whether the provider's
\* terminate call was made
TerminateOutcome(rows, exit, called) == [jobs |-> rows, exit |-> exit, called |-> called]

\* the handling of the result written with the job marked terminated whatever
\* the provider answered
TerminateHandleResult_MarkAlways(rows, j, job, result, cost, t) ==
    TerminateOutcome(UpdateJobStatusAll(rows, j, "terminated", NoExtra, t),
                     IF result = "error" THEN 1 ELSE 0, TRUE)

\* the handling of the provider's result: the ledger is written for success,
\* already_terminated (unless the job is marked terminated) and not_found
TerminateHandleResult(rows, j, job, result, cost, t) ==
    IF result = "success"
    THEN TerminateOutcome(
             UpdateJobStatusAll(rows, j, "terminated",
                                [termination_reason |-> "reason", final_cost |-> cost], t),
             0, TRUE)
    ELSE IF result = "already_terminated"
         THEN TerminateOutcome(
                  IF job.status # "terminated"
                  THEN UpdateJobStatusAll(rows, j, "terminated", NoExtra, t)
                  ELSE rows,
                  0, TRUE)
    ELSE IF result = "not_found"
         THEN TerminateOutcome(
                  UpdateJobStatusAll(rows, j, "terminated",
                                     [termination_reason |-> "Instance not found"], t),
                  0, TRUE)
    ELSE TerminateOutcome(rows, 1, TRUE)

\* main: the job is read, a terminal job is left alone without --force, the
\* user confirms unless --force, the provider is called and its result handled;
\* has_ids says whether the metadata holds the project or resource group ids
TerminateMainFn(rows, j, force, confirmed, has_ids, result, t) ==
    IF ~HasJob(rows, j)
    THEN TerminateOutcome(rows, 1, FALSE)
    ELSE LET job == GetJob(rows, j)
             current_cost == CalculateJobCostFn(rows, j, t)
         IN  IF IsTerminal(job.status) /\ ~force
             THEN TerminateOutcome(rows, 0, FALSE)
             ELSE IF job.instance_id = ""
                  THEN TerminateOutcome(rows, 1, FALSE)
             ELSE IF ~force /\ ~confirmed
                  THEN TerminateOutcome(rows, 0, FALSE)
             ELSE IF job.provider = "AWS"
                  THEN TerminateHandleResult(rows, j, job, result, current_cost, t)
             ELSE IF job.provider \in {"GCP", "Azure"}
                  THEN IF has_ids
                       THEN TerminateHandleResult(rows, j, job, result, current_cost, t)
                       ELSE TerminateOutcome(rows, 1, FALSE)
             ELSE TerminateOutcome(rows, 1, FALSE)

Terminate(j, force, confirmed, has_ids, result) ==
    /\ nops' = nops + 1
    /\ LET out == TerminateMainFn(jobs, j, force, confirmed, has_ids, result, now)
       IN  /\ jobs' = out.jobs
           /\ ret' = [op |-> "terminate", job_id |-> j, ok |-> out.exit = 0, calls |-> <<>>,
                      force |-> force, called |-> out.called,
                      result |-> IF out.called THEN result ELSE "none"]
    /\ UNCHANGED <<now, cost_tracking, lock, procs, hist>>

\* one job of any provider, given an instance id or not, and its terminations
NextTerminate ==
    \/ Tick
    \/ /\ nops < MaxTerminateOps
       /\ \E st \in CreateStatuses, prov \in {"AWS", "GCP", "Azure", "ORACLE"} :
             CreateJob(ReconJob, st, prov, NULL, MaxPrice)
    \/ /\ nops < MaxTerminateOps
       /\ \E st \in {"running", "terminated"},
             extra \in {NoExtra, [instance_id |-> "i-1", public_ip |-> "ip-1"]} :
             UpdateJobStatus(ReconJob, st, extra)
    \/ /\ nops < MaxTerminateOps
       /\ \E force \in BOOLEAN, confirmed \in BOOLEAN, has_ids \in BOOLEAN,
             result \in TerminateResults :
             Terminate(ReconJob, force, confirmed, has_ids, result)

SpecTerminate == Init /\ [][NextTerminate]_vars

-----------------------------------------------------------------------------
(* update_job_completion.notify_job_completion and the cost retrieval script *)
(* it starts in the background.  A process of procs is a started script.     *)

\* the clock after a sleep of d hours; the model's clock stops at its horizon
ClockAfter(t, d) == Min(t + d, MaxDays * DayTicks)

\* the script's loop without its break: it goes on after a successful attempt
ScriptGoesOn_NoBreak(ok, attempt) == attempt < MaxAttempts

\* for attempt in range(5): if tracker.retrieve_job_cost(...): break -- whether
\* the loop makes another attempt after this one, the attempt-th
ScriptGoesOn(ok, attempt) == ~ok /\ attempt < MaxAttempts

\* notify_job_completion: the status update and, when it succeeded for status
\* completed, the start of the retrieval script as process p.
\*   available: job_manager and cost_tracker could be imported
\*   store_ok:  the store did not fail in update_job_status
\*   spawn_ok:  the script file was written and nohup started
\*   arg_ok:    the job id, shell-quoted and pasted into the script's python
\*              text, evaluates to the job id there
NotifyJobCompletion(p, j, status, available, store_ok, spawn_ok, arg_ok) ==
    LET success == available /\ store_ok
        scheduled == success /\ status = "completed" /\ spawn_ok
    IN  /\ procs[p].pc = "idle"
        /\ nops' = nops + 1
        /\ jobs' = IF success
                   THEN UpdateJobStatusAll(jobs, j, status,
                                           [completion_metadata |-> "dict"], now)
                   ELSE jobs
        /\ procs' = IF scheduled
                    THEN [procs EXCEPT ![p] =
                            [pc |-> "retry", op |-> "cost_script", job_id |-> j,
                             status |-> status, cost |-> NoCost, t |-> now, ok |-> FALSE,
                             overlapped |-> FALSE, wjobs |-> <<>>, wcost |-> <<>>,
                             attempt |-> 0, arg_ok |-> arg_ok]]
                    ELSE procs
        /\ ret' = [op |-> "notify", job_id |-> j, ok |-> success, calls |-> <<>>,
                   status |-> status, scheduled |-> scheduled]
        /\ hist' = hist
        /\ UNCHANGED <<now, cost_tracking, lock>>

\* one pass of the script's loop (the first after the initial sleep): a
\* retrieve_job_cost call, then the break or the sleep of a day; a job id that
\* does not evaluate ends the python process before any call
CostScriptAttempt(p, cd) ==
    LET c == procs[p]
        t0 == IF c.attempt = 0 THEN ClockAfter(now, InitialSleepHours) ELSE now
        out == RetrieveJobCostFn(jobs, cost_tracking, c.job_id, FALSE, cd, t0)
        goes_on == ScriptGoesOn(out.ok, c.attempt + 1)
    IN  /\ c.pc = "retry"
        /\ IF ~c.arg_ok
           THEN /\ procs' = [procs EXCEPT ![p].pc = "done"]
                /\ now' = t0
                /\ UNCHANGED <<jobs, cost_tracking, ret, nops, hist>>
           ELSE /\ nops' = nops + 1
                /\ jobs' = out.jobs
                /\ cost_tracking' = out.cost
                /\ ret' = [op |-> "retrieve", job_id |-> c.job_id, ok |-> out.ok,
                           calls |-> out.calls, force |-> FALSE,
                           billing |-> IF out.calls = <<>> THEN NoCost ELSE cd,
                           window |-> IF out.calls = <<>>
                                      THEN NoWindow
                                      ELSE QueryWindow(GetJob(jobs, c.job_id), t0)]
                /\ hist' = IF out.ok /\ out.calls # <<>>
                           THEN [hist EXCEPT !.retrieved = @ \cup {c.job_id}]
                           ELSE hist
                /\ procs' = [procs EXCEPT ![p].attempt = c.attempt + 1,
                                          ![p].ok = out.ok,
                                          ![p].pc = IF goes_on THEN "retry" ELSE "done"]
                /\ now' = IF out.ok THEN t0 ELSE ClockAfter(t0, DayTicks)
        /\ UNCHANGED lock

NextHook ==
    \/ Tick
    \/ /\ nops < MaxHookOps
       /\ \E prov \in {"AWS", "ORACLE"} : CreateJob(ReconJob, "running", prov, NULL, 0)
    \/ /\ nops < MaxHookOps
       /\ \E p \in Procs, status \in TerminalStatuses,
             available \in BOOLEAN, store_ok \in BOOLEAN, spawn_ok \in BOOLEAN,
             arg_ok \in BOOLEAN :
             NotifyJobCompletion(p, ReconJob, status, available, store_ok, spawn_ok, arg_ok)
    \/ \E p \in Procs, cd \in {NoCost, TotalOnly(1)} : CostScriptAttempt(p, cd)

\* a started script is a running process: it takes its next step
SpecHook ==
    Init /\ [][NextHook]_vars
         /\ \A p \in Procs : WF_vars(\E cd \in {NoCost, TotalOnly(1)} : CostScriptAttempt(p, cd))

-----------------------------------------------------------------------------
(* Properties of the job lifecycle, checked under Spec *)

\* C1: after any sequence of create and update_status calls, completed_at is
\* non-null if and only if the job's current status is completed, failed or
\* terminated.
C1_CompletedAtIffTerminal ==
    \A i \in DOMAIN jobs : (jobs[i].completed_at # NULL) <=> IsTerminal(jobs[i].status)

\* C2: after any sequence of create and update_status calls, started_at is
\* non-null if and only if the job's status has reached running at least once.
C2_StartedAtIffReachedRunning ==
    \A i \in DOMAIN jobs :
        (jobs[i].started_at # NULL) <=> (jobs[i].job_id \in hist.ever_running)

\* C3: terminal states are absorbing: a job whose status is completed, failed
\* or terminated still has one of these statuses after any later step.
C3_TerminalAbsorbing ==
    [][\A j \in JobIds :
          (HasJob(jobs, j) /\ IsTerminal(FirstRow(jobs, j).status) /\ HasJob(jobs', j))
              => IsTerminal(FirstRow(jobs', j).status)]_vars

\* C4: create returns true for a job id not in the ledger and false for one
\* already present; a rejected create leaves the ledger unchanged; the ledger
\* holds at most one record per job id.
C4_CreateRejectsDuplicate ==
    [][(nops' = nops + 1 /\ ret'.op = "create")
          => /\ ret'.ok <=> ~HasJob(jobs, ret'.job_id)
             /\ ~ret'.ok => jobs' = jobs
             /\ ret'.ok => Len(jobs') = Len(jobs) + 1
             /\ \A j \in JobIds : Cardinality(RowsOf(jobs', j)) <= 1]_vars

\* a create was rejected: the id was present, and the ledger holds both ids
C4_Witness ==
    /\ ret.op = "create"
    /\ ~ret.ok
    /\ HasJob(jobs, ret.job_id)
    /\ Len(jobs) = 2

\* a step that is a call of update_job_status
UpdateStatusStep == nops' = nops + 1 /\ ret'.op = "update_status"

\* C15: update_status on a job id that is not in the ledger returns false and
\* leaves the ledger unchanged.
C15_UpdateMissingJobReturnsFalse ==
    [][(UpdateStatusStep /\ ~HasJob(jobs, ret'.job_id))
          => /\ ~ret'.ok
             /\ jobs' = jobs
             /\ cost_tracking' = cost_tracking]_vars

\* C17: update_status(job, running) on a job whose started_at is already set
\* leaves started_at unchanged.
C17_StartedAtFirstWins ==
    [][(/\ UpdateStatusStep
        /\ ret'.status = "running"
        /\ HasJob(jobs, ret'.job_id)
        /\ FirstRow(jobs, ret'.job_id).started_at # NULL)
          => FirstRow(jobs', ret'.job_id).started_at = FirstRow(jobs, ret'.job_id).started_at]_vars

\* C18: in every reachable ledger state each job's status is one of launching,
\* running, completed, failed, terminated.
C18_StatusInClosedEnum ==
    \A i \in DOMAIN jobs :
        jobs[i].status \in {"launching", "running", "completed", "failed", "terminated"}

-----------------------------------------------------------------------------
(* Properties of retrieve_job_cost, checked under SpecRecon *)

\* a step that is a call of retrieve_job_cost on a present job
RetrieveStep(j) ==
    /\ nops' = nops + 1
    /\ ret'.op = "retrieve"
    /\ ret'.job_id = j
    /\ HasJob(jobs, j)

LedgerUnchanged == jobs' = jobs /\ cost_tracking' = cost_tracking

\* C7 (as claimed): retrieve_one on a job whose status is not completed, failed
\* or terminated returns false, calls no billing collaborator and does not
\* change the ledger.
C7_NonTerminalReturnsFalse ==
    [][\A j \in JobIds :
          (RetrieveStep(j) /\ ~IsTerminal(FirstRow(jobs, j).status))
              => (~ret'.ok /\ ret'.calls = <<>> /\ LedgerUnchanged)]_vars

\* C7 (amended): retrieve_one on a job whose status is not terminal calls no
\* billing collaborator and does not change the ledger; it returns true when
\* the job already has an actual cost and force_refresh is off, false otherwise.
C7_NonTerminalNoRetrieval ==
    [][\A j \in JobIds :
          (RetrieveStep(j) /\ ~IsTerminal(FirstRow(jobs, j).status))
              => /\ ret'.ok <=> (FirstRow(jobs, j).actual_cost # NULL /\ ~ret'.force)
                 /\ ret'.calls = <<>>
                 /\ LedgerUnchanged]_vars

\* retrieve_one has just returned true on a job that is not terminal
C7_Witness ==
    /\ ret.op = "retrieve"
    /\ ret.ok
    /\ HasJob(jobs, ret.job_id)
    /\ ~IsTerminal(FirstRow(jobs, ret.job_id).status)

\* C8: once retrieve_one without force_refresh has succeeded and set
\* actual_cost, the actual cost stays set, and every later retrieve_one without
\* force_refresh returns true, calls no billing collaborator and leaves the
\* ledger unchanged.
C8_SecondRetrieveShortCircuits ==
    [][\A j \in JobIds :
          /\ (j \in hist'.retrieved /\ HasJob(jobs', j))
                => FirstRow(jobs', j).actual_cost # NULL
          /\ (RetrieveStep(j) /\ j \in hist.retrieved /\ ~ret'.force)
                => (ret'.ok /\ ret'.calls = <<>> /\ LedgerUnchanged)]_vars

\* a retrieve_one without force_refresh has just returned on a job that an
\* earlier retrieve_one reconciled at an earlier time
C8_Witness ==
    /\ ret.op = "retrieve"
    /\ ~ret.force
    /\ ret.calls = <<>>
    /\ ret.job_id \in hist.retrieved
    /\ HasJob(jobs, ret.job_id)
    /\ FirstRow(jobs, ret.job_id).cost_retrieved_at < now

\* C9: for a terminal job that lacks actual_cost (or with force_refresh),
\* retrieve_one calls exactly the billing collaborator of the job's provider,
\* for each of AWS, GCP and Azure, and sets actual_cost to the total of a
\* non-null answer and returns true; for any other provider it returns false
\* and calls no collaborator.
C9_DispatchesToProvider ==
    [][\A j \in JobIds :
          (/\ RetrieveStep(j)
           /\ IsTerminal(FirstRow(jobs, j).status)
           /\ (FirstRow(jobs, j).actual_cost = NULL \/ ret'.force))
              => IF FirstRow(jobs, j).provider \in SupportedProviders
                 THEN /\ ret'.calls = <<FirstRow(jobs, j).provider>>
                      /\ ret'.billing # NoCost
                            => (ret'.ok /\ FirstRow(jobs', j).actual_cost = ret'.billing.total)
                 ELSE ~ret'.ok /\ ret'.calls = <<>>]_vars

-----------------------------------------------------------------------------
(* Properties of batch_retrieve_costs, checked under SpecBatch *)

\* the jobs of the whole ledger that are terminal, lack actual_cost and were
\* created within the last days_back days
EligibleInLedger(rows, days_back, t) ==
    {i \in DOMAIN rows :
        /\ IsTerminal(rows[i].status)
        /\ rows[i].actual_cost = NULL
        /\ rows[i].created_at >= t - days_back * DayTicks}

\* C10: retrieve_batch(max_jobs, days_back) attempts exactly min(max_jobs, E)
\* jobs, E the number of jobs of the whole ledger that are terminal, lack
\* actual_cost and were created within the last days_back days.
C10_BatchAttemptsAllEligible ==
    [][(nops' = nops + 1 /\ ret'.op = "batch")
          => ret'.processed =
                Min(ret'.max_jobs,
                    Cardinality(EligibleInLedger(jobs, ret'.days_back, now)))]_vars

\* C11: batch_retrieve_costs calls retrieve_job_cost exactly once on every
\* selected job, in order and whatever the earlier calls returned, and its
\* result has processed = successful + failed = the number of selected jobs.
C11_BatchProcessesEverySelected ==
    [][(nops' = nops + 1 /\ ret'.op = "batch")
          => LET selected == BatchSelect(jobs, ret'.max_jobs, ret'.days_back, now)
                 okays == {k \in DOMAIN ret'.results : ret'.results[k].ok}
             IN  /\ Len(ret'.results) = Len(selected)
                 /\ \A k \in DOMAIN selected :
                        ret'.results[k].job_id = selected[k].job_id
                 /\ ret'.calls = [k \in DOMAIN selected |-> "AWS"]
                 /\ ret'.successful = Cardinality(okays)
                 /\ ret'.processed = ret'.successful + ret'.failed
                 /\ ret'.processed = Len(selected)]_vars

\* a batch of two jobs went on to the second job, with success, after the
\* retrieval of the first had failed
C11_Witness ==
    /\ ret.op = "batch"
    /\ ret.processed = 2
    /\ ~ret.results[1].ok
    /\ ret.results[2].ok
    /\ ret.failed = 1
    /\ ret.successful = 1

\* the columns update_job_status may write
StatusWritable ==
    {"status", "updated_at", "started_at", "completed_at",
     "instance_id", "public_ip", "private_ip"}

\* C16: update_status changes at most status, updated_at, started_at,
\* completed_at and the allow-listed instance_id, public_ip and private_ip of
\* its job; keys of extra_fields outside the allow-list are ignored; job_id,
\* created_at, provider, price_per_hour, budget_limit, actual_cost and every
\* other job's record are left unchanged.
C16_UpdateStatusFrame ==
    [][UpdateStatusStep
          => /\ DOMAIN jobs' = DOMAIN jobs
             /\ cost_tracking' = cost_tracking
             /\ \A i \in DOMAIN jobs :
                    IF jobs[i].job_id = ret'.job_id
                    THEN \A f \in DOMAIN jobs[i] \ StatusWritable : jobs'[i][f] = jobs[i][f]
                    ELSE jobs'[i] = jobs[i]]_vars

\* an update_status whose additional_data named job_id and provider beside
\* private_ip has been applied to one of two jobs: private_ip was written
C16_Witness ==
    /\ ret.op = "update_status"
    /\ {"job_id", "provider", "private_ip"} \subseteq ret.extra
    /\ Len(jobs) = 2
    /\ HasJob(jobs, ret.job_id)
    /\ FirstRow(jobs, ret.job_id).private_ip = "ip-2"
    /\ FirstRow(jobs, ret.job_id).provider = "AWS"

\* C19: every successful update_status and update_actual_cost on a job sets
\* its updated_at to the time of the call, and updated_at >= created_at holds
\* for every job in every reachable state.
C19_UpdatedAtBumped ==
    /\ [](\A i \in DOMAIN jobs : jobs[i].updated_at >= jobs[i].created_at)
    /\ [][(/\ nops' = nops + 1
            /\ ret'.op \in {"update_status", "update_actual_cost"}
            /\ ret'.ok
            /\ HasJob(jobs, ret'.job_id))
              => FirstRow(jobs', ret'.job_id).updated_at = now]_vars

\* an update_actual_cost a day after the job's creation and its last update
\* has moved updated_at to the day of the call
C19_Witness ==
    /\ ret.op = "update_actual_cost"
    /\ ret.ok
    /\ HasJob(jobs, ReconJob)
    /\ FirstRow(jobs, ReconJob).updated_at = now
    /\ FirstRow(jobs, ReconJob).created_at < now
    /\ FirstRow(jobs, ReconJob).started_at # NULL
    /\ FirstRow(jobs, ReconJob).started_at < now

\* C35: in every reachable state every cost-breakdown entry's job id is that
\* of a job record in the ledger; update_actual_cost called with an absent job
\* id adds no breakdown entry.
C35_BreakdownRefersToJob ==
    \A i \in DOMAIN cost_tracking : HasJob(jobs, cost_tracking[i].job_id)

\* C26: once a job's actual_cost has been set it is never cleared: no
\* update_status, no retrieve_job_cost (a forced refresh whose collaborator
\* returns null included) and no failed operation returns it to null; its
\* value changes only in a successful update_actual_cost, called directly or
\* by a retrieval.
C26_ActualCostNeverCleared ==
    [][\A j \in JobIds :
          (HasJob(jobs, j) /\ FirstRow(jobs, j).actual_cost # NULL)
              => /\ HasJob(jobs', j)
                 /\ FirstRow(jobs', j).actual_cost # NULL
                 /\ FirstRow(jobs', j).actual_cost # FirstRow(jobs, j).actual_cost
                       => /\ nops' = nops + 1
                          /\ ret'.ok
                          /\ ret'.job_id = j
                          /\ \/ ret'.op = "update_actual_cost"
                             \/ ret'.op = "retrieve" /\ ret'.calls # <<>>]_vars

\* a forced refresh whose collaborator returned null has failed and the job
\* still has its actual cost
C26_Witness ==
    /\ ret.op = "retrieve"
    /\ ret.force
    /\ ret.calls # <<>>
    /\ ret.billing = NoCost
    /\ ~ret.ok
    /\ HasJob(jobs, ReconJob)
    /\ FirstRow(jobs, ReconJob).actual_cost # NULL

\* C27: each successful update_actual_cost on an existing job sets actual_cost
\* to its amount and appends its breakdown items to the entries already there,
\* none replaced or deduplicated: after k calls actual_cost is the last amount
\* and the job has n1 + ... + nk entries.
C27_BreakdownAppended ==
    [][(/\ nops' = nops + 1
        /\ ret'.op = "update_actual_cost"
        /\ ret'.ok
        /\ HasJob(jobs, ret'.job_id))
          => LET n == Len(ret'.cost_data.breakdown)
             IN  /\ FirstRow(jobs', ret'.job_id).actual_cost = ret'.cost_data.total
                 /\ Len(cost_tracking') = Len(cost_tracking) + n
                 /\ SubSeq(cost_tracking', 1, Len(cost_tracking)) = cost_tracking
                 /\ \A k \in 1..n :
                        /\ cost_tracking'[Len(cost_tracking) + k].job_id = ret'.job_id
                        /\ cost_tracking'[Len(cost_tracking) + k].amount
                              = ret'.cost_data.breakdown[k]]_vars

\* two calls with the same one-item breakdown have left two equal entries
C27_Witness ==
    /\ ret.op = "update_actual_cost"
    /\ HasJob(jobs, ReconJob)
    /\ FirstRow(jobs, ReconJob).actual_cost = ret.cost_data.total
    /\ Len(cost_tracking) = 2
    /\ cost_tracking[1] = cost_tracking[2]
    /\ cost_tracking[1].job_id = ReconJob

\* C28: when the billing collaborator returns null for a terminal job,
\* retrieve_job_cost returns false and leaves the ledger unchanged, and a
\* retry whose collaborator has a cost succeeds.
C28_NullResultLeavesLedger ==
    [][(RetrieveStep(ReconJob) /\ ret'.calls # <<>> /\ ret'.billing = NoCost)
          => /\ ~ret'.ok
             /\ LedgerUnchanged
             /\ \A cd \in CostResults :
                    RetrieveJobCostFn(jobs', cost_tracking', ReconJob, ret'.force, cd, now).ok]_vars

\* an unforced retrieval of a completed job got null from the collaborator: it
\* failed and the job has no actual cost
C28_Witness ==
    /\ ret.op = "retrieve"
    /\ ~ret.force
    /\ ret.calls # <<>>
    /\ ret.billing = NoCost
    /\ ~ret.ok
    /\ HasJob(jobs, ReconJob)
    /\ IsTerminal(FirstRow(jobs, ReconJob).status)
    /\ FirstRow(jobs, ReconJob).actual_cost = NULL
    /\ FirstRow(jobs, ReconJob).cost_retrieved_at = NULL

-----------------------------------------------------------------------------
(* Properties of store failures, checked under SpecFail *)

\* C30: when the store fails during create, update_status or
\* update_actual_cost, the call returns false and leaves the ledger as it was:
\* the step at which a call fails changes neither table, and the tables change
\* only at the commit of a call that returns true, so that no partial write of
\* a transaction (a status without its timestamp, an actual_cost without its
\* breakdown entries) is ever persisted.
C30_FailedCallWritesNothing ==
    [][/\ \A p \in Procs :
             (procs[p].pc # "done" /\ procs'[p].pc = "done" /\ ~procs'[p].ok)
                 => /\ jobs' = jobs
                    /\ cost_tracking' = cost_tracking
                    /\ ~ret'.ok
                    /\ ret'.op = procs[p].op
       /\ (jobs' # jobs \/ cost_tracking' # cost_tracking)
             => \E p \in Procs :
                   /\ procs[p].pc = "commit"
                   /\ procs'[p].pc = "done"
                   /\ procs'[p].ok
                   /\ ret'.ok]_vars

\* an update_status to running has failed between its two statements: the
\* rows it discarded had the new status without the start time, and the job
\* in the ledger still has the status it had
C30_Witness ==
    \E p \in Procs :
        /\ procs[p].pc = "done"
        /\ ~procs[p].ok
        /\ ~ret.ok
        /\ procs[p].op = "update_status"
        /\ procs[p].status = "running"
        /\ FirstRow(procs[p].wjobs, ConcJob).status = "running"
        /\ FirstRow(procs[p].wjobs, ConcJob).started_at = NULL
        /\ FirstRow(jobs, ConcJob).status = "launching"
        /\ FirstRow(jobs, ConcJob).updated_at = 0
        /\ \A q \in Procs \ {p} : procs[q].pc = "idle"

-----------------------------------------------------------------------------
(* Properties of concurrent create_job calls, checked under SpecCreate *)

\* C31: when two processes have both called create with the same job id, not
\* in the ledger before, exactly one call has returned true and the ledger
\* holds exactly one record for the id, with the status and the creation time
\* of the call that returned true.
C31_ConcurrentCreateOneWinner ==
    \A p \in Procs : \A q \in Procs \ {p} :
        (/\ procs[p].pc = "done" /\ procs[q].pc = "done"
         /\ procs[p].op = "create" /\ procs[q].op = "create"
         /\ procs[p].job_id = "j2" /\ procs[q].job_id = "j2")
            => /\ procs[p].ok # procs[q].ok
               /\ Cardinality(RowsOf(jobs, "j2")) = 1
               /\ procs[p].ok
                    => FirstRow(jobs, "j2")
                         = NewJobRow("j2", procs[p].status, "AWS", NULL, 0, procs[p].t)

\* two overlapping create calls of the same id with different statuses have
\* both returned
C31_Witness ==
    /\ procs["p1"].pc = "done" /\ procs["p2"].pc = "done"
    /\ procs["p1"].op = "create" /\ procs["p2"].op = "create"
    /\ procs["p1"].job_id = "j2" /\ procs["p2"].job_id = "j2"
    /\ procs["p1"].status # procs["p2"].status
    /\ procs["p2"].overlapped
    /\ procs["p2"].ok
    /\ HasJob(jobs, "j2")

-----------------------------------------------------------------------------
(* Properties of the reads, checked under SpecReads *)

\* C32: get, list, running_cost, check_budget, cost_summary, jobs_over_budget
\* and the reporting views leave every job record and every cost-breakdown
\* entry unchanged.
C32_ReadsChangeNothing ==
    [][(nops' = nops + 1 /\ ret'.op \in ReadOps)
          => jobs' = jobs /\ cost_tracking' = cost_tracking]_vars

\* list_jobs has returned the dict of a job with an actual cost and a
\* breakdown entry, its metadata parsed, and the row still holds the text
C32_Witness ==
    /\ ret.op = "list"
    /\ Len(ret.result) >= 1
    /\ ret.result[1].metadata = "dict"
    /\ ret.result[1].actual_cost # NULL
    /\ HasJob(jobs, ret.result[1].job_id)
    /\ FirstRow(jobs, ret.result[1].job_id).metadata = "str"
    /\ cost_tracking # <<>>

-----------------------------------------------------------------------------
(* Properties of concurrent cost retrieval, checked under SpecRetr *)

\* C34: when several processes call retrieve_job_cost on the same terminal
\* job, all with force_refresh false, the billing result is written at most
\* once: at most one of the calls has stored a result, and the job has the
\* breakdown entries of one result, not of two.
C34_ConcurrentRetrieveWritesOnce ==
    (\A p \in Procs : procs[p].op = "retrieve" /\ ~procs[p].force)
        => /\ Cardinality({p \in Procs : procs[p].pc = "done" /\ procs[p].ok
                                         /\ procs[p].cost # NoCost}) <= 1
           /\ Len(SelectSeq(cost_tracking, LAMBDA c : c.job_id = ConcJob)) <= MaxBreakdown

\* C36: actual cost being written only through retrieve_job_cost, every job
\* whose actual_cost is set has a terminal status in every reachable state,
\* under any interleaving with the update_status calls of other processes.
C36_ActualCostOnlyOnTerminal ==
    \A i \in DOMAIN jobs : jobs[i].actual_cost # NULL => IsTerminal(jobs[i].status)

-----------------------------------------------------------------------------
(* Properties of the billing query window, checked under SpecWindow *)

\* C37: in every billing-collaborator call made by retrieve_job_cost the
\* query window runs from one hour before started_at (created_at if it is not
\* set) to one hour after completed_at (now if it is not set), and its start is
\* strictly earlier than its end.
C37_QueryWindowPadded ==
    [][(RetrieveStep(ReconJob) /\ ret'.calls # <<>>)
          => LET job == FirstRow(jobs, ReconJob)
             IN  /\ ret'.window.start
                      = (IF job.started_at # NULL THEN job.started_at ELSE job.created_at) - 1
                 /\ ret'.window.end
                      = (IF job.completed_at # NULL THEN job.completed_at ELSE now) + 1
                 /\ ret'.window.start < ret'.window.end]_vars

\* the collaborator was called for a job completed, set running again and
\* completed again in the hour it started: the window is two hours wide
C37_Witness ==
    /\ ret.op = "retrieve"
    /\ ret.calls # <<>>
    /\ HasJob(jobs, ReconJob)
    /\ FirstRow(jobs, ReconJob).started_at # NULL
    /\ FirstRow(jobs, ReconJob).started_at > FirstRow(jobs, ReconJob).created_at
    /\ FirstRow(jobs, ReconJob).completed_at = FirstRow(jobs, ReconJob).started_at
    /\ ret.window.end = ret.window.start + 2

-----------------------------------------------------------------------------
(* Properties of the terminate flow, checked under SpecTerminate *)

TerminateStep ==
    /\ nops' = nops + 1
    /\ ret'.op = "terminate"
    /\ HasJob(jobs, ret'.job_id)

\* C39: the terminate flow changes the ledger only by marking the job
\* terminated, and only after the provider's terminate call has returned
\* success, already_terminated or not_found; when the call returns an error, or
\* when the job is in a terminal status and --force is not given, the job's
\* record is left unchanged.
C39_TerminatedOnlyAfterProvider ==
    [][TerminateStep
          => LET job == FirstRow(jobs, ret'.job_id)
             IN  /\ jobs' # jobs
                     => /\ ret'.called
                        /\ ret'.result \in {"success", "already_terminated", "not_found"}
                        /\ FirstRow(jobs', ret'.job_id).status = "terminated"
                 /\ (ret'.called /\ ret'.result = "error") => jobs' = jobs
                 /\ (IsTerminal(job.status) /\ ~ret'.force)
                     => jobs' = jobs /\ ~ret'.called]_vars

\* the provider answered not_found for a running job and the flow has marked
\* it terminated at this instant
C39_Witness ==
    /\ ret.op = "terminate"
    /\ ret.called
    /\ ret.result = "not_found"
    /\ HasJob(jobs, ReconJob)
    /\ FirstRow(jobs, ReconJob).status = "terminated"
    /\ FirstRow(jobs, ReconJob).started_at # NULL
    /\ FirstRow(jobs, ReconJob).completed_at = now
    /\ now > 0

-----------------------------------------------------------------------------
(* Properties of the completion hook, checked under SpecHook *)

\* C40: the cost retrieval script is started only by a notify_job_completion
\* whose status update succeeded and whose status is completed; it makes at
\* most 5 retrieve_job_cost attempts, makes none after an attempt that
\* returned true, and terminates.
C40_CostScriptBounded ==
    /\ [][\A p \in Procs :
             /\ (procs[p].op # "cost_script" /\ procs'[p].op = "cost_script")
                   => /\ ret'.op = "notify"
                      /\ ret'.ok
                      /\ ret'.status = "completed"
                      /\ procs'[p].attempt = 0
             /\ (procs[p].op = "cost_script" /\ procs'[p] # procs[p])
                   => /\ procs[p].pc = "retry"
                      /\ ~procs[p].ok
                      /\ procs[p].attempt < 5
                      /\ procs'[p].attempt <= procs[p].attempt + 1
                      /\ procs'[p].ok => procs'[p].pc = "done"]_vars
    /\ [](\A p \in Procs : procs[p].op = "cost_script" => procs[p].attempt <= 5)
    /\ \A p \in Procs : (procs[p].op = "cost_script") ~> (procs[p].pc = "done")

\* a script has ended after five attempts that all failed, and the job, which
\* the hook marked completed, has no actual cost
C40_Witness ==
    \E p \in Procs :
        /\ procs[p].op = "cost_script"
        /\ procs[p].pc = "done"
        /\ procs[p].attempt = 5
        /\ ~procs[p].ok
        /\ HasJob(jobs, procs[p].job_id)
        /\ FirstRow(jobs, procs[p].job_id).status = "completed"
        /\ FirstRow(jobs, procs[p].job_id).actual_cost = NULL

-----------------------------------------------------------------------------
(* Properties of cleanup_completed_jobs, checked under SpecCleanup *)

\* a step that is a call of cleanup_completed_jobs
CleanupStep == nops' = nops + 1 /\ ret'.op = "cleanup"

\* C12: for every current date and every older_than_days >= 0, cleanup deletes
\* every job in a terminal status whose created_at is older than now minus
\* older_than_days days, and returns the number of job records it deleted.
C12_CleanupDeletesAllOldTerminal ==
    [][CleanupStep
          => /\ \A i \in DOMAIN jobs :
                    (/\ IsTerminal(jobs[i].status)
                     /\ jobs[i].created_at < now - ret'.days_old * DayTicks)
                        => ~HasJob(jobs', jobs[i].job_id)
             /\ ret'.count = Len(jobs) - Len(jobs')]_vars

\* C13: cleanup never deletes a job whose status is non-terminal, whatever its
\* age, and never deletes a terminal job whose created_at is younger than the
\* cutoff: such a record is in the ledger, unchanged, after the call.
C13_CleanupKeepsLiveAndYoung ==
    [][CleanupStep
          => \A i \in DOMAIN jobs :
                (\/ ~IsTerminal(jobs[i].status)
                 \/ jobs[i].created_at > now - ret'.days_old * DayTicks)
                    => \E k \in DOMAIN jobs' : jobs'[k] = jobs[i]]_vars

\* a cleanup deleted a job and kept a non-terminal job created before the cutoff
C13_Witness ==
    /\ ret.op = "cleanup"
    /\ ret.count = 1
    /\ now = ret.at
    /\ \E i \in DOMAIN jobs :
          /\ ~IsTerminal(jobs[i].status)
          /\ jobs[i].created_at < ret.at - ret.days_old * DayTicks

\* C14: after cleanup deletes a job record, no cost-breakdown entry with that
\* job id remains in the ledger.
C14_CleanupCascades ==
    [][CleanupStep
          => \A i \in DOMAIN jobs :
                ~HasJob(jobs', jobs[i].job_id)
                    => RowsOf(cost_tracking', jobs[i].job_id) = {}]_vars

-----------------------------------------------------------------------------
(* Properties of cleanup_old_jobs, checked under SpecDryRun *)

\* C38: for the same ledger, instant and number of days, the number that
\* cleanup_old_jobs reports with dry_run is the number of jobs that it deletes
\* without dry_run.
C38_DryRunReportsWhatCleanupDeletes ==
    [][(nops' = nops + 1 /\ ret'.op = "cleanup_old" /\ ret'.dry_run)
          => LET real == CleanupCompletedJobsFn(jobs, cost_tracking, ret'.days, now)
             IN  /\ ret'.count = real.count
                 /\ ret'.count = Len(jobs) - Len(real.jobs)]_vars

-----------------------------------------------------------------------------
(* Properties of check_budget_limit, checked under SpecBudget *)

\* C20: for a job whose budget_limit is set to L >= 0, L = 0 included,
\* check_budget(job, c) reports within_budget = (c <= L) and over_amount =
\* max(0, c - L), and for L > 0 reports usage_percent = 100 * c / L.
C20_CheckBudgetAgainstLimit ==
    [][(/\ nops' = nops + 1
        /\ ret'.op = "check_budget"
        /\ HasJob(jobs, ret'.job_id)
        /\ FirstRow(jobs, ret'.job_id).budget_limit # NULL)
          => LET L == FirstRow(jobs, ret'.job_id).budget_limit
                 c == ret'.cost
                 r == ret'.result
             IN  /\ r.within_budget = (c <= L)
                 /\ "over_budget_amount" \in DOMAIN r
                 /\ r.over_budget_amount = Max(0, c - L)
                 /\ L > 0 => /\ "budget_usage_percent" \in DOMAIN r
                             /\ r.budget_usage_percent * L = 100 * c]_vars

\* C21: check_budget on a job with no budget_limit set reports within_budget =
\* true with a null limit, for every cost value.
C21_NoBudgetAlwaysWithin ==
    [][(/\ nops' = nops + 1
        /\ ret'.op = "check_budget"
        /\ HasJob(jobs, ret'.job_id)
        /\ FirstRow(jobs, ret'.job_id).budget_limit = NULL)
          => /\ ret'.result.within_budget
             /\ ret'.result.budget_limit = NULL
             /\ ret'.result.estimated_cost = ret'.cost
             /\ jobs' = jobs]_vars

\* the largest cost of the model was checked against a job without budget_limit
C21_Witness ==
    /\ ret.op = "check_budget"
    /\ ret.cost = MaxCost
    /\ HasJob(jobs, ret.job_id)
    /\ FirstRow(jobs, ret.job_id).budget_limit = NULL
    /\ ret.result.within_budget

-----------------------------------------------------------------------------
(* Properties of the cost reads, checked under SpecCost and SpecRunCost *)

\* C22: cost_summary computes its budget status from actual_cost whenever
\* actual_cost is non-null, an actual cost of 0 included, and from the
\* running-cost estimate only when actual_cost is null (jobs with a positive
\* budget_limit).
C22_SummaryUsesActualCostWhenPresent ==
    [][(/\ nops' = nops + 1
        /\ ret'.op = "cost_summary"
        /\ HasJob(jobs, ret'.job_id)
        /\ FirstRow(jobs, ret'.job_id).budget_limit > 0)
          => LET job == FirstRow(jobs, ret'.job_id)
                 cost == IF job.actual_cost # NULL
                         THEN job.actual_cost
                         ELSE CalculateJobCostFn(jobs, ret'.job_id, now)
             IN  ret'.result.within_budget = (cost <= job.budget_limit)]_vars

\* the cost the claim compares with the limit: actual_cost if present, else
\* estimated_cost, else none
ClaimedCost(job) ==
    IF job.actual_cost # NULL THEN job.actual_cost ELSE job.estimated_cost

\* C23: for every ledger content jobs_over_budget returns exactly the jobs
\* that have a non-null budget_limit and whose cost (actual_cost if present,
\* else estimated_cost) exceeds it, each annotated with over_amount = cost -
\* limit.
C23_OverBudgetReturnsExactlyTheOverBudget ==
    [][(nops' = nops + 1 /\ ret'.op = "over_budget")
          => LET over == {i \in DOMAIN jobs :
                            /\ jobs[i].budget_limit # NULL
                            /\ ClaimedCost(jobs[i]) # NULL
                            /\ ClaimedCost(jobs[i]) > jobs[i].budget_limit}
                 r == ret'.result
             IN  /\ {r[k].job_id : k \in DOMAIN r} = {jobs[i].job_id : i \in over}
                 /\ Len(r) = Cardinality(over)
                 /\ \A k \in DOMAIN r :
                        r[k].over_budget_amount =
                            ClaimedCost(FirstRow(jobs, r[k].job_id))
                                - FirstRow(jobs, r[k].job_id).budget_limit]_vars

\* C24: running_cost is 0 when price_per_hour is unset or zero, and otherwise
\* price_per_hour times the hours between start and end, where end is
\* completed_at if set else now and start is started_at if set else created_at.
C24_RunningCostFormula ==
    [][(nops' = nops + 1 /\ ret'.op = "calculate_cost" /\ HasJob(jobs, ret'.job_id))
          => LET job == FirstRow(jobs, ret'.job_id)
                 end == IF job.completed_at # NULL THEN job.completed_at ELSE now
                 start == IF job.started_at # NULL THEN job.started_at ELSE job.created_at
             IN  ret'.value = IF job.price_per_hour = NULL \/ job.price_per_hour = 0
                              THEN 0
                              ELSE job.price_per_hour * (end - start)]_vars

\* the cost of a priced job created on the first day, started on the second
\* and completed on the third, computed after its completion: one day's price
C24_Witness ==
    /\ ret.op = "calculate_cost"
    /\ HasJob(jobs, ret.job_id)
    /\ FirstRow(jobs, ret.job_id).price_per_hour > 0
    /\ FirstRow(jobs, ret.job_id).created_at < FirstRow(jobs, ret.job_id).started_at
    /\ FirstRow(jobs, ret.job_id).started_at < FirstRow(jobs, ret.job_id).completed_at
    /\ ret.at = now
    /\ ret.value = FirstRow(jobs, ret.job_id).price_per_hour * DayTicks

\* C25: for a job with a fixed price_per_hour > 0 and a fixed start time,
\* running_cost is non-decreasing as now or completed_at moves forward: a
\* later call never returns less than an earlier one.
C25_RunningCostNonDecreasing ==
    (/\ ret.op = "calculate_cost"
     /\ ~ret.prev.none
     /\ HasJob(jobs, ret.job_id)
     /\ hist.last_cost[ret.job_id].at = ret.at
     /\ hist.last_cost[ret.job_id].price > 0
     /\ hist.last_cost[ret.job_id].price = ret.prev.price
     /\ hist.last_cost[ret.job_id].start = ret.prev.start)
        => ret.value >= ret.prev.value

\* two calls a day apart on a job with the same start, the job completed
\* between them: the later cost is the larger
C25_Witness ==
    /\ ret.op = "calculate_cost"
    /\ ~ret.prev.none
    /\ ret.prev.price > 0
    /\ ret.prev.at < ret.at
    /\ hist.last_cost[ret.job_id].at = ret.at
    /\ hist.last_cost[ret.job_id].start = ret.prev.start
    /\ hist.last_cost[ret.job_id].price = ret.prev.price
    /\ HasJob(jobs, ret.job_id)
    /\ FirstRow(jobs, ret.job_id).completed_at > ret.prev.at
    /\ ret.value > ret.prev.value

\* C33: in every reachable state and for every job the running cost is not
\* negative, and a job with both started_at and completed_at set has
\* started_at <= completed_at, whatever update_status calls were made.
C33_RunningCostNonNegative ==
    \A j \in JobIds :
        HasJob(jobs, j)
            => /\ CalculateJobCostFn(jobs, j, now) >= 0
               /\ (FirstRow(jobs, j).started_at # NULL /\ FirstRow(jobs, j).completed_at # NULL)
                     => FirstRow(jobs, j).started_at <= FirstRow(jobs, j).completed_at

\* C29: get, cost_summary and running_cost called with a job id that is absent
\* from the ledger return a null/None result and mutate nothing.
C29_ReadsOfMissingJobReturnNone ==
    [][(/\ nops' = nops + 1
        /\ ret'.op \in {"get", "cost_summary", "calculate_cost"}
        /\ ~HasJob(jobs, ret'.job_id))
          => /\ ret'.op \in {"get", "cost_summary"} => ret'.result.none
             /\ ret'.op = "calculate_cost" => ret'.is_none
             /\ LedgerUnchanged]_vars

-----------------------------------------------------------------------------
(* Properties of concurrent calls, checked under SpecConc *)

\* C5: for every interleaving of a concurrent update_status(j, s) and
\* update_actual_cost(j, c) by two processes on the same existing job, both
\* calls return success and the final record has status s and actual_cost c.
C5_ConcurrentStatusAndCostBothKept ==
    \A p, q \in Procs :
        (/\ procs[p].pc = "done" /\ procs[p].op = "update_status"
         /\ procs[q].pc = "done" /\ procs[q].op = "update_actual_cost"
         /\ procs[p].job_id = procs[q].job_id)
            => /\ procs[p].ok /\ procs[q].ok
               /\ HasJob(jobs, procs[p].job_id)
               /\ FirstRow(jobs, procs[p].job_id).status = procs[p].status
               /\ FirstRow(jobs, procs[p].job_id).actual_cost = procs[q].cost.total

\* both calls have returned, and one of them began while the other was inside
\* its call
C5_Witness ==
    \E p, q \in Procs :
        /\ procs[p].pc = "done" /\ procs[p].op = "update_status"
        /\ procs[q].pc = "done" /\ procs[q].op = "update_actual_cost"
        /\ procs[p].overlapped \/ procs[q].overlapped
        /\ procs[p].t < procs[q].t
        /\ FirstRow(jobs, ConcJob).updated_at = procs[p].t
        /\ FirstRow(jobs, ConcJob).cost_retrieved_at = procs[q].t

\* C6: each update_status call is one atomic transaction: whenever a step of
\* the call changes what the other connections read, the change is the whole
\* call, the status together with its started_at or completed_at stamp.
C6_UpdateStatusAtomic ==
    [][\A p \in Procs :
          (procs[p].op = "update_status" /\ procs'[p] # procs[p] /\ jobs' # jobs)
              => /\ jobs' = UpdateJobStatusTx(jobs, procs[p].job_id, procs[p].status, procs[p].t)
                 /\ IsTerminal(procs[p].status)
                       => FirstRow(jobs', procs[p].job_id).completed_at = procs[p].t
                 /\ procs[p].status = "running"
                       => FirstRow(jobs', procs[p].job_id).started_at = procs[p].t]_vars

\* an update_status to a terminal status has committed while the other process
\* was between its call and its return
C6_Witness ==
    \E p, q \in Procs :
        /\ procs[p].pc = "done" /\ procs[p].op = "update_status"
        /\ IsTerminal(procs[p].status)
        /\ FirstRow(jobs, ConcJob).completed_at = procs[p].t
        /\ procs[q].pc \in {"stmt1", "stmt2", "commit"}

====
